---- MODULE Spec2Model ----
(***************************************************************************)
(* Quiz submission lifecycle and visibility resolution of the tutoring     *)
(* backend (quizzes/models.py, quizzes/views.py, quizzes/serializers.py,   *)
(* quizzes/permissions.py).                                                *)
(*                                                                         *)
(* Time is counted in whole minutes: timer_minutes is a number of units    *)
(* and the 60 second grace of is_timed_out is one unit.  Datetimes range   *)
(* over 0..MaxDateTime; an addition that leaves that range is Python's     *)
(* OverflowError.                                                          *)
(***************************************************************************)
EXTENDS Integers, FiniteSets, Sequences, TLC

VARIABLES
    now,        \* timezone.now()
    settings,   \* the QuizSettings row of the quiz
    windows,    \* QuizCenter rows of the quiz: center -> window or NoWindow
    questions,  \* Question rows of the quiz with their Choice rows: id -> row
    nextPk,     \* next primary keys of Question and Choice
    sub,        \* QuizSubmission rows: student -> row or NoRow
    answers,    \* Answer rows of each submission: student -> (question id -> row)
    nextId,     \* next primary key of QuizSubmission
    pc,         \* position of each in-flight create_submission request
    req,        \* its request: student and payload
    snap,       \* its in-memory QuizSubmission instance (read at line 512)
    last        \* the response of the request that completed last

vars == <<now, settings, windows, questions, nextPk, sub, answers, nextId, pc, req, snap, last>>

----------------------------------------------------------------------------
(* Bounds *)

MaxClock == 3          \* the clock is advanced up to this instant
MaxDateTime == 6       \* datetime.max, scaled down
MaxRows == 2           \* submission rows ever created (start after delete)
MaxPk == 6             \* primary keys of the Question and Choice rows ever created

----------------------------------------------------------------------------
(* Program constants and the population the requests are drawn from *)

Takers == {"s1"}       \* the students who take the quiz under Spec

GRACE == 1             \* timedelta(seconds=60)
Null == -1             \* a NULL DateTimeField

\* s1 is in a center and the grade of the quiz; s2 is in another center;
\* s3 is in s1's center and in another grade
Students == {"s1", "s2", "s3"}
\* c1 and c2 are centers of the teacher who owns the quiz, c3 is a center
\* of another teacher
Centers == {"c1", "c2", "c3"}
QuizTeacher == "t1"
CenterTeacher(c) == IF c = "c3" THEN "t2" ELSE "t1"
Procs == {"p1", "p2"}
Modes == {"immediate", "after_close", "manual"}
Orders == {"created", "random"}
Timers == {0, 1}

StudentCenter(s) == IF s = "s2" THEN "c2" ELSE "c1"
StudentGrade(s) == IF s = "s3" THEN "g2" ELSE "g1"
QuizGrade == "g1"

NoWindow == [open_date |-> Null, close_date |-> Null]
HasWindow(w) == w.open_date # Null

NoRow ==
    [id |-> 0, start_time |-> Null, end_time |-> Null, score |-> 0,
     is_submitted |-> FALSE, is_score_released |-> FALSE,
     are_answers_released |-> FALSE]
Exists(row) == row.id # 0

(* A Question row with the ids of its Choice rows and of those marked      *)
(* is_correct.  Question 9 belongs to another quiz.                        *)
QuestionRow(selection_type, points, order, choices, correct) ==
    [selection_type |-> selection_type, points |-> points, order |-> order,
     choices |-> choices, correct |-> correct]

ForeignQuestion == 9
ForeignQuestionRow == QuestionRow("multiple", 2, 0, {}, {})

QuestionIds == DOMAIN questions
QuestionPoints(q) == questions[q].points
QuestionSelectionType(q) == questions[q].selection_type
QuestionChoices(q) == questions[q].choices
CorrectChoices(q) == questions[q].correct

\* Question.objects.all() and Choice.objects.all(), as the payload fields
\* of AnswerCreateSerializer look ids up
QuestionExists(q) == q \in QuestionIds \cup {ForeignQuestion}
QuestionOf(q) == IF q \in QuestionIds THEN questions[q] ELSE ForeignQuestionRow
ChoiceExists(c) == \E q \in QuestionIds : c \in questions[q].choices

(* The quiz of Spec and SpecVis: one multiple-selection question worth two *)
(* points, choices 1 (correct) and 2.                                      *)
OneQuestion == [q \in {1} |-> QuestionRow("multiple", 2, 0, {1, 2}, {1})]
OneQuestionPk == [question |-> 2, choice |-> 3]

(* An Answer row: its selected_choices, the order the question was         *)
(* presented in, and the marks calculate_score stores.                     *)
AnswerRow(selected, order, points_earned, is_correct) ==
    [selected_choices |-> selected, order |-> order,
     points_earned |-> points_earned, is_correct |-> is_correct]
Stub(order) == AnswerRow({}, order, 0, FALSE)

NoAnswers == [q \in {} |-> Stub(0)]

(* Payloads of create_submission: the 'answers' list, one entry per        *)
(* {question_id, selected_choices}.                                        *)
Entry(q, selected) == [question_id |-> q, selected_choices |-> selected]
NoEntries == <<>>

Payloads ==
    { NoEntries,
      <<Entry(1, {1})>>,
      <<Entry(ForeignQuestion, {})>> }

NoReq == [student |-> "-", answers |-> NoEntries]
NoData == <<>>
NoResp == [op |-> "none", who |-> "-", status |-> 0, data |-> NoData]
Resp(op, who, status) == [op |-> op, who |-> who, status |-> status, data |-> NoData]
DataResp(op, who, status, data) == [op |-> op, who |-> who, status |-> status, data |-> data]

----------------------------------------------------------------------------
(* models.py *)

\* is_timed_out without the `timer_minutes == 0` test
is_timed_outZeroTimer(row, timer, t) ==
    IF row.is_submitted THEN FALSE
    ELSE IF row.end_time # Null THEN TRUE
    ELSE IF row.start_time = Null THEN FALSE
    ELSE IF row.start_time + timer + GRACE > MaxDateTime THEN FALSE
    ELSE t > row.start_time + timer + GRACE

\* QuizSubmission.is_timed_out
is_timed_out(row, timer, t) ==
    IF row.is_submitted THEN FALSE
    ELSE IF row.end_time # Null THEN TRUE
    ELSE IF row.start_time = Null \/ timer = 0 THEN FALSE
    ELSE IF row.start_time + timer + GRACE > MaxDateTime THEN FALSE
    ELSE t > row.start_time + timer + GRACE

(* calculate_score.  The points of every question drawn here are a         *)
(* multiple of its number of correct choices, so the float quotients of    *)
(* the code are whole numbers and \div computes them exactly.              *)

\* AnswerPoints without the penalty for incorrect selections
AnswerPointsNoPenalty(question, selected) ==
    LET total_correct_choices == Cardinality(question.correct)
        selected_correct == Cardinality(selected \cap question.correct)
    IN  IF total_correct_choices > 0
        THEN (selected_correct * question.points) \div total_correct_choices
        ELSE 0

\* points_earned of one answer (0 when the question has no correct choice:
\* the loop body is skipped and nothing is added)
AnswerPoints(question, selected) ==
    LET total_correct_choices == Cardinality(question.correct)
        selected_correct == Cardinality(selected \cap question.correct)
        selected_total == Cardinality(selected)
        partial_score == (selected_correct * question.points) \div total_correct_choices
        incorrectly_selected == selected_total - selected_correct
        penalty == (incorrectly_selected * question.points) \div total_correct_choices
    IN  IF total_correct_choices > 0
        THEN IF incorrectly_selected > 0
             THEN IF partial_score - penalty > 0 THEN partial_score - penalty ELSE 0
             ELSE partial_score
        ELSE 0

\* is_correct of one answer
AnswerIsCorrect(question, selected) ==
    LET total_correct_choices == Cardinality(question.correct)
        selected_correct == Cardinality(selected \cap question.correct)
        selected_total == Cardinality(selected)
    IN  selected_correct = total_correct_choices /\ selected_total = total_correct_choices

RECURSIVE SumPoints(_, _, _)
SumPoints(qs, ans, ids) ==
    IF ids = {} THEN 0
    ELSE LET q == CHOOSE x \in ids : TRUE
         IN  AnswerPoints(qs[q], ans[q].selected_choices) + SumPoints(qs, ans, ids \ {q})

\* QuizSubmission.calculate_score over the Answer rows ans of the
\* submission and the Question rows qs: the total it returns
calculate_score(qs, ans) == SumPoints(qs, ans, DOMAIN ans)

\* ... and the Answer rows after its bulk_update of points_earned and
\* is_correct (answers of a question without correct choice are left alone)
ScoredAnswers(qs, ans) ==
    [q \in DOMAIN ans |->
        IF Cardinality(qs[q].correct) > 0
        THEN [ans[q] EXCEPT
                !.points_earned = AnswerPoints(qs[q], ans[q].selected_choices),
                !.is_correct = AnswerIsCorrect(qs[q], ans[q].selected_choices)]
        ELSE ans[q]]

----------------------------------------------------------------------------
(* permissions.py *)

\* CanTakeQuiz without the comparison of the grades
CanTakeQuizAnyGrade(s) ==
    LET quiz_center == windows[StudentCenter(s)]
    IN  /\ HasWindow(quiz_center)
        /\ ~(now < quiz_center.open_date \/ now > quiz_center.close_date)

\* CanTakeQuiz.has_permission
CanTakeQuiz(s) ==
    LET quiz_center == windows[StudentCenter(s)]
    IN  /\ HasWindow(quiz_center)
        /\ ~(now < quiz_center.open_date \/ now > quiz_center.close_date)
        /\ StudentGrade(s) = QuizGrade

----------------------------------------------------------------------------
(* State after create_quiz *)

SettingsSet ==
    [timer_minutes : Timers, score_visibility : Modes, answers_visibility : Modes,
     question_order : Orders]

(* The payloads of create_quiz and of the quiz update. *)
WindowInputs ==
    { [c \in Centers |-> IF c = "c1" THEN [open_date |-> 0, close_date |-> 2] ELSE NoWindow] }

SettingsInputs ==
    { st \in SettingsSet :
        /\ st.question_order = "created"
        /\ \/ st.score_visibility = "manual" /\ st.answers_visibility = "immediate"
           \/ /\ st.score_visibility = "after_close" /\ st.answers_visibility = "manual"
              /\ st.timer_minutes > 0 }

Idle ==
    /\ pc = [p \in Procs |-> "idle"]
    /\ req = [p \in Procs |-> NoReq]
    /\ snap = [p \in Procs |-> NoRow]

Init ==
    /\ now = 0
    /\ settings \in SettingsInputs
    /\ windows \in WindowInputs
    /\ questions = OneQuestion
    /\ nextPk = OneQuestionPk
    /\ sub = [s \in Students |-> NoRow]
    /\ answers = [s \in Students |-> NoAnswers]
    /\ nextId = 1
    /\ Idle
    /\ last = NoResp

----------------------------------------------------------------------------
(* The clock *)

Tick ==
    /\ now < MaxClock
    /\ now' = now + 1
    /\ UNCHANGED <<settings, windows, questions, nextPk, sub, answers, nextId, pc, req, snap, last>>

----------------------------------------------------------------------------
(* views.py: start_quiz *)

\* the orderings of a set of ids
Perms(S) ==
    { seq \in [1..Cardinality(S) -> S] :
        \A i, j \in 1..Cardinality(S) : i # j => seq[i] # seq[j] }

PositionIn(seq, x) == CHOOSE i \in 1..Len(seq) : seq[i] = x

\* quiz.questions.all(): Meta.ordering is ['order', 'created_at']
QuestionBefore(qs, a, b) ==
    qs[a].order < qs[b].order \/ (qs[a].order = qs[b].order /\ a < b)

CanonicalOrder(qs) ==
    CHOOSE seq \in Perms(DOMAIN qs) :
        \A i, j \in 1..Len(seq) : i < j => QuestionBefore(qs, seq[i], seq[j])

\* the orders start_quiz may present the questions in: random.shuffle
\* yields any of them
Presentations ==
    IF settings.question_order = "random" THEN Perms(QuestionIds)
    ELSE {CanonicalOrder(questions)}

\* the body of the 200 response
StartData(row) == <<[submission_id |-> row.id, start_time |-> row.start_time]>>

\* StartQuiz shuffling again for a submission that exists already
StartQuizReshuffle(s) ==
    /\ UNCHANGED <<now, settings, windows, questions, nextPk, pc, req, snap>>
    /\ IF ~CanTakeQuiz(s)
       THEN /\ last' = Resp("start", s, 403)
            /\ UNCHANGED <<sub, answers, nextId>>
       ELSE IF Exists(sub[s])
       THEN /\ last' = DataResp("start", s, 200, StartData(sub[s]))
            /\ \E presented \in Perms(DOMAIN answers[s]) :
                    answers' = [answers EXCEPT ![s] =
                        [q \in DOMAIN answers[s] |->
                            [answers[s][q] EXCEPT !.order = PositionIn(presented, q) - 1]]]
            /\ UNCHANGED <<sub, nextId>>
       ELSE /\ nextId <= MaxRows
            /\ \E presented \in Presentations :
                    answers' = [answers EXCEPT ![s] =
                        [q \in QuestionIds |-> Stub(PositionIn(presented, q) - 1)]]
            /\ sub' = [sub EXCEPT ![s] = [NoRow EXCEPT !.id = nextId, !.start_time = now]]
            /\ nextId' = nextId + 1
            /\ last' = DataResp("start", s, 200, StartData(sub'[s]))

StartQuiz(s) ==
    /\ UNCHANGED <<now, settings, windows, questions, nextPk, pc, req, snap>>
    /\ IF ~CanTakeQuiz(s)
       THEN /\ last' = Resp("start", s, 403)
            /\ UNCHANGED <<sub, answers, nextId>>
       ELSE IF Exists(sub[s])
       THEN \* get_or_create finds the row: nothing is written
            /\ last' = DataResp("start", s, 200, StartData(sub[s]))
            /\ UNCHANGED <<sub, answers, nextId>>
       ELSE /\ nextId <= MaxRows
            /\ \E presented \in Presentations :
                    answers' = [answers EXCEPT ![s] =
                        [q \in QuestionIds |-> Stub(PositionIn(presented, q) - 1)]]
            /\ sub' = [sub EXCEPT ![s] = [NoRow EXCEPT !.id = nextId, !.start_time = now]]
            /\ nextId' = nextId + 1
            /\ last' = DataResp("start", s, 200, StartData(sub'[s]))

----------------------------------------------------------------------------
(* views.py: list_questions, student branch: the ids of the questions in   *)
(* the order of the Answer rows' stored order                              *)

AnswerOrder(ans) ==
    CHOOSE seq \in Perms(DOMAIN ans) :
        \A i, j \in 1..Len(seq) : i < j => ans[seq[i]].order <= ans[seq[j]].order

ListQuestions(s) ==
    /\ UNCHANGED <<now, settings, windows, questions, nextPk, sub, answers, nextId, pc, req, snap>>
    /\ IF ~Exists(sub[s])
       THEN last' = Resp("questions", s, 403)
       ELSE IF sub[s].is_submitted \/ is_timed_out(sub[s], settings.timer_minutes, now)
       THEN last' = Resp("questions", s, 403)
       ELSE last' = DataResp("questions", s, 200, <<AnswerOrder(answers[s])>>)

----------------------------------------------------------------------------
(* serializers.py: AnswerCreateSerializer.validate and                     *)
(* QuizSubmissionUpdateSerializer.validate_answers                         *)

\* the fields of one entry (both ids must exist), then validate
AnswerValid(entry) ==
    /\ QuestionExists(entry.question_id)
    /\ \A c \in entry.selected_choices : ChoiceExists(c)
    /\ LET question == QuestionOf(entry.question_id)
       IN  /\ ~(question.selection_type = "single"
                /\ Cardinality(entry.selected_choices) > 1)
           /\ entry.selected_choices \subseteq question.choices

SubmittedQuestionIds(payload) == { payload[i].question_id : i \in 1..Len(payload) }

\* PayloadValid without the subset test of validate_answers
PayloadValidAnyQuestion(s, payload) ==
    \A i \in 1..Len(payload) : AnswerValid(payload[i])

PayloadValid(s, payload) ==
    /\ \A i \in 1..Len(payload) : AnswerValid(payload[i])
    /\ SubmittedQuestionIds(payload) \subseteq DOMAIN answers[s]

\* the choices the payload selects for question q, over all its entries
SelectedFor(payload, q) ==
    UNION { payload[i].selected_choices : i \in { j \in 1..Len(payload) : payload[j].question_id = q } }

\* two entries insert the same (answer, choice) pair: bulk_create violates
\* the unique constraint of the through table
DuplicateSelection(payload) ==
    \E i, j \in 1..Len(payload) :
        /\ i < j
        /\ payload[i].question_id = payload[j].question_id
        /\ payload[i].selected_choices \cap payload[j].selected_choices # {}

\* QuizSubmissionUpdateSerializer.update: all selections of the submission
\* are deleted, then the payload's selections are inserted
ReplaceSelections(ans, payload) ==
    [q \in DOMAIN ans |-> [ans[q] EXCEPT !.selected_choices = SelectedFor(payload, q)]]

----------------------------------------------------------------------------
(* views.py: create_submission, in three steps: the unlocked read and the  *)
(* checks (lines 511-560), then either the locked timeout finalization     *)
(* (lines 535-551) or the accepting transaction (lines 562-576)            *)

Done(p) ==
    /\ pc' = [pc EXCEPT ![p] = "idle"]
    /\ req' = [req EXCEPT ![p] = NoReq]
    /\ snap' = [snap EXCEPT ![p] = NoRow]

SubmitRead(p, s, payload) ==
    /\ pc[p] = "idle"
    /\ UNCHANGED <<now, settings, windows, questions, nextPk, sub, answers, nextId>>
    /\ LET submission == sub[s]
       IN  IF ~Exists(submission)
           THEN /\ last' = Resp("submit", s, 404)
                /\ UNCHANGED <<pc, req, snap>>
           ELSE IF submission.is_submitted
           THEN /\ last' = Resp("submit", s, 409)
                /\ UNCHANGED <<pc, req, snap>>
           ELSE IF is_timed_out(submission, settings.timer_minutes, now)
           THEN /\ pc' = [pc EXCEPT ![p] = "finalize"]
                /\ req' = [req EXCEPT ![p] = [student |-> s, answers |-> NoEntries]]
                /\ snap' = [snap EXCEPT ![p] = submission]
                /\ UNCHANGED last
           ELSE IF ~PayloadValid(s, payload)
           THEN /\ last' = Resp("submit", s, 400)
                /\ UNCHANGED <<pc, req, snap>>
           ELSE /\ pc' = [pc EXCEPT ![p] = "write"]
                /\ req' = [req EXCEPT ![p] = [student |-> s, answers |-> payload]]
                /\ snap' = [snap EXCEPT ![p] = submission]
                /\ UNCHANGED last

\* the end_time the timeout path stores (lines 541-545)
TheoreticalEnd(row, timer, t) ==
    IF row.start_time + timer > MaxDateTime THEN t ELSE row.start_time + timer

\* SubmitFinalize without the `if not sub_to_finalize.end_time` check
SubmitFinalizeEveryTime(p) ==
    /\ pc[p] = "finalize"
    /\ UNCHANGED <<now, settings, windows, questions, nextPk, answers, nextId>>
    /\ Done(p)
    /\ LET s == req[p].student
           sub_to_finalize == sub[s]
       IN  IF ~Exists(sub_to_finalize) \/ sub_to_finalize.id # snap[p].id
           THEN /\ last' = Resp("submit", s, 500)
                /\ UNCHANGED sub
           ELSE /\ last' = Resp("submit", s, 409)
                /\ sub' = [sub EXCEPT ![s] =
                            [sub_to_finalize EXCEPT
                                !.end_time = TheoreticalEnd(sub_to_finalize, settings.timer_minutes, now),
                                !.score = 0]]

SubmitFinalize(p) ==
    /\ pc[p] = "finalize"
    /\ UNCHANGED <<now, settings, windows, questions, nextPk, answers, nextId>>
    /\ Done(p)
    /\ LET s == req[p].student
           sub_to_finalize == sub[s]
       IN  IF ~Exists(sub_to_finalize) \/ sub_to_finalize.id # snap[p].id
           THEN \* select_for_update().get(pk=...) raises DoesNotExist
                /\ last' = Resp("submit", s, 500)
                /\ UNCHANGED sub
           ELSE /\ last' = Resp("submit", s, 409)
                /\ IF sub_to_finalize.end_time = Null
                   THEN sub' = [sub EXCEPT ![s] =
                            [sub_to_finalize EXCEPT
                                !.end_time = TheoreticalEnd(sub_to_finalize, settings.timer_minutes, now),
                                !.score = 0]]
                   ELSE UNCHANGED sub

\* SavedRow without is_submitted = True
SavedRowNotSubmitted(instance, t, score) ==
    [instance EXCEPT !.end_time = t, !.score = score]

\* the row submission.save() writes: every field of the in-memory instance
SavedRow(instance, t, score) ==
    [instance EXCEPT !.end_time = t, !.is_submitted = TRUE, !.score = score]

\* ConfirmationStatus without the 60 seconds of grace
ConfirmationStatusNoGrace(row, timer) ==
    IF row.start_time = Null \/ row.end_time = Null THEN "pending"
    ELSE IF timer = 0 THEN "on_time"
    ELSE IF row.end_time - row.start_time > timer THEN "late" ELSE "on_time"

\* QuizSubmissionConfirmationSerializer.get_submission_status
ConfirmationStatus(row, timer) ==
    IF row.start_time = Null \/ row.end_time = Null THEN "pending"
    ELSE IF timer = 0 THEN "on_time"
    ELSE IF row.end_time - row.start_time > timer + GRACE THEN "late" ELSE "on_time"

\* QuizSubmissionConfirmationSerializer(submission).data
Confirmation(row, timer) ==
    <<[id |-> row.id, end_time |-> row.end_time, is_submitted |-> row.is_submitted,
       submission_status |-> ConfirmationStatus(row, timer)]>>

SubmitWrite(p) ==
    /\ pc[p] = "write"
    /\ UNCHANGED <<now, settings, windows, questions, nextPk, nextId>>
    /\ Done(p)
    /\ LET s == req[p].student
           payload == req[p].answers
           instance == snap[p]
           same == Exists(sub[s]) /\ sub[s].id = instance.id
           \* instance.answers.all(): the Answer rows of this primary key
           own == IF same THEN answers[s] ELSE NoAnswers
       IN  IF ~(SubmittedQuestionIds(payload) \subseteq DOMAIN own)
           THEN \* answer_map[...] raises KeyError, the transaction rolls back
                /\ last' = Resp("submit", s, 500)
                /\ UNCHANGED <<sub, answers>>
           ELSE IF \/ DuplicateSelection(payload)
                   \/ \E q \in DOMAIN own : ~(SelectedFor(payload, q) \subseteq questions[q].choices)
           THEN \* bulk_create raises IntegrityError: a pair inserted twice,
                \* or a choice deleted since the validation
                /\ last' = Resp("submit", s, 500)
                /\ UNCHANGED <<sub, answers>>
           ELSE IF Exists(sub[s]) /\ ~same
           THEN \* save() inserts and violates unique_together
                /\ last' = Resp("submit", s, 500)
                /\ UNCHANGED <<sub, answers>>
           ELSE LET stored == ReplaceSelections(own, payload)
                    saved == SavedRow(instance, now, calculate_score(questions, stored))
                IN  /\ answers' = [answers EXCEPT ![s] = ScoredAnswers(questions, stored)]
                    /\ sub' = [sub EXCEPT ![s] = saved]
                    /\ last' = DataResp("submit", s, 200,
                                         Confirmation(saved, settings.timer_minutes))

----------------------------------------------------------------------------
(* views.py: submission_detail, DELETE by the teacher *)

DeleteSubmission(s) ==
    /\ Exists(sub[s])
    /\ sub' = [sub EXCEPT ![s] = NoRow]
    /\ answers' = [answers EXCEPT ![s] = NoAnswers]
    /\ last' = Resp("delete", s, 204)
    /\ UNCHANGED <<now, settings, windows, questions, nextPk, nextId, pc, req, snap>>

----------------------------------------------------------------------------
(* views.py: release_all_quiz_results.  rs and ra are "absent" when the    *)
(* key is not in the payload, else the JSON boolean sent.                   *)

ReleaseArgs == {"absent", "true", "false"}

\* the payloads sent: <<release_score, release_answers>>
ReleasePayloads ==
    { <<"absent", "absent">>, <<"true", "absent">>, <<"absent", "true">>,
      <<"true", "true">>, <<"false", "false">> }

\* bool(request.data.get(...))
PyBool(v) == v = "true"

\* ScoreEligible without the test of the mode
ScoreEligibleAnyMode(rs) == rs # "absent"

ScoreEligible(rs) == rs # "absent" /\ settings.score_visibility = "manual"
AnswersEligible(ra) == ra # "absent" /\ settings.answers_visibility = "manual"

\* the body of the 200 response: update_payload.get(...) of each flag,
\* "null" for None
ReleaseData(rs, ra) ==
    <<[released_scores |-> IF ScoreEligible(rs) THEN rs ELSE "null",
       released_answers |-> IF AnswersEligible(ra) THEN ra ELSE "null"]>>

ReleaseAll(rs, ra) ==
    /\ IF rs = "absent" /\ ra = "absent"
       THEN /\ last' = Resp("release", "-", 400)
            /\ UNCHANGED sub
       ELSE IF ~ScoreEligible(rs) /\ ~AnswersEligible(ra)
       THEN /\ last' = Resp("release", "-", 409)
            /\ UNCHANGED sub
       ELSE /\ last' = DataResp("release", "-", 200, ReleaseData(rs, ra))
            /\ sub' = [s \in Students |->
                        IF Exists(sub[s]) /\ sub[s].is_submitted
                        THEN [sub[s] EXCEPT
                                !.is_score_released =
                                    IF ScoreEligible(rs) THEN PyBool(rs) ELSE @,
                                !.are_answers_released =
                                    IF AnswersEligible(ra) THEN PyBool(ra) ELSE @]
                        ELSE sub[s]]
    /\ UNCHANGED <<now, settings, windows, questions, nextPk, answers, nextId, pc, req, snap>>

----------------------------------------------------------------------------
(* views.py: quiz_detail_or_update, PUT: QuizCreateSerializer.update and   *)
(* the rescoring of the submitted attempts.  The 'questions' list of the   *)
(* payload has one entry per question: its id (0 when the key is absent),  *)
(* selection_type, points and the list of its choices, each with an id (0  *)
(* when absent) and is_correct.                                            *)

ChoiceData(id, is_correct) == [id |-> id, is_correct |-> is_correct]
QuestionData(id, selection_type, points, choices) ==
    [id |-> id, selection_type |-> selection_type, points |-> points, choices |-> choices]

\* QuestionSerializer.validate on one entry
QuestionDataValid(qd) ==
    LET correct_choices_count ==
            Cardinality({ i \in 1..Len(qd.choices) : qd.choices[i].is_correct })
    IN  /\ Len(qd.choices) > 0
        /\ correct_choices_count # 0
        /\ ~(qd.selection_type = "single" /\ correct_choices_count > 1)

\* QuizCenterSerializer.validate on every entry of the centers list: the
\* center may be any Center row
WindowsValid(wins) ==
    \A c \in Centers :
        HasWindow(wins[c]) => ~(wins[c].close_date <= wins[c].open_date)

\* the entries of a choices list that create a Choice, and the id each gets
NewChoices(cs) == { i \in 1..Len(cs) : cs[i].id = 0 }
NewChoiceId(cs, i, first) == first + Cardinality({ j \in NewChoices(cs) : j < i })

\* QuestionSerializer.update: the question's fields, then its choices:
\* those not named by the payload are deleted, those named and existing are
\* updated, an id that names no choice of the question is skipped, an entry
\* without id creates a choice
UpdateQuestion(st, qd, index) ==
    LET row == st.qs[qd.id]
        cs == qd.choices
        incoming_choice_ids == { cs[i].id : i \in 1..Len(cs) } \ {0}
        kept == row.choices \cap incoming_choice_ids
        LastEntry(c) ==
            CHOOSE i \in 1..Len(cs) :
                cs[i].id = c /\ \A j \in 1..Len(cs) : j > i => cs[j].id # c
        created == { NewChoiceId(cs, i, st.pk.choice) : i \in NewChoices(cs) }
        correct ==
            { c \in kept : cs[LastEntry(c)].is_correct }
            \cup { NewChoiceId(cs, i, st.pk.choice) : i \in { k \in NewChoices(cs) : cs[k].is_correct } }
    IN  [qs |-> [st.qs EXCEPT ![qd.id] =
                    QuestionRow(qd.selection_type, qd.points, index, kept \cup created, correct)],
         pk |-> [st.pk EXCEPT !.choice = @ + Cardinality(NewChoices(cs))]]

\* QuestionSerializer.create (the updates drawn here give no id to the
\* choices of a question they create)
CreateQuestion(st, qd, index) ==
    LET cs == qd.choices
        id == st.pk.question
        created == { NewChoiceId(cs, i, st.pk.choice) : i \in NewChoices(cs) }
        correct == { NewChoiceId(cs, i, st.pk.choice) : i \in { k \in NewChoices(cs) : cs[k].is_correct } }
        row == QuestionRow(qd.selection_type, qd.points, index, created, correct)
    IN  [qs |-> [q \in DOMAIN st.qs \cup {id} |-> IF q = id THEN row ELSE st.qs[q]],
         pk |-> [question |-> id + 1, choice |-> st.pk.choice + Cardinality(NewChoices(cs))]]

\* Step 1 of QuizCreateSerializer.update: the entries that name an existing
\* question, in list order; order is the list position
RECURSIVE UpdateExisting(_, _, _)
UpdateExisting(st, data, i) ==
    IF i > Len(data) THEN st
    ELSE UpdateExisting(
            IF data[i].id # 0 /\ data[i].id \in DOMAIN st.qs
            THEN UpdateQuestion(st, data[i], i - 1) ELSE st,
            data, i + 1)

\* Step 2: the entries without id
RECURSIVE CreateNew(_, _, _)
CreateNew(st, data, i) ==
    IF i > Len(data) THEN st
    ELSE CreateNew(
            IF data[i].id = 0 THEN CreateQuestion(st, data[i], i - 1) ELSE st,
            data, i + 1)

\* ApplyQuestions without step 3
ApplyQuestionsNoDelete(qs, pk, data) ==
    CreateNew(UpdateExisting([qs |-> qs, pk |-> pk], data, 1), data, 1)

\* Steps 1 to 3: the Question rows and the next keys after the update;
\* step 3 deletes every question that was neither updated nor created
ApplyQuestions(qs, pk, data) ==
    LET updated == UpdateExisting([qs |-> qs, pk |-> pk], data, 1)
        created == CreateNew(updated, data, 1)
        updated_question_ids ==
            ({ data[i].id : i \in 1..Len(data) } \cap DOMAIN qs)
            \cup (pk.question .. (created.pk.question - 1))
    IN  [qs |-> [q \in updated_question_ids |-> created.qs[q]], pk |-> created.pk]

\* on_delete=CASCADE: the Answer rows of deleted questions and the
\* selections of deleted choices go with them
CascadeAnswers(ans, qs) ==
    [q \in DOMAIN ans \cap DOMAIN qs |->
        [ans[q] EXCEPT !.selected_choices = @ \cap qs[q].choices]]

\* UpdateQuiz without the recalculation of lines 337-345
UpdateQuizNoRescore(newSettings, newWindows, questions_data) ==
    /\ UNCHANGED <<now, nextId, pc, req, snap>>
    /\ IF \/ \E i \in 1..Len(questions_data) : ~QuestionDataValid(questions_data[i])
          \/ ~WindowsValid(newWindows)
       THEN /\ last' = Resp("update", "-", 400)
            /\ UNCHANGED <<settings, windows, questions, nextPk, sub, answers>>
       ELSE \E applied \in {ApplyQuestions(questions, nextPk, questions_data)} :
                /\ applied.pk.question <= MaxPk + 1
                /\ applied.pk.choice <= MaxPk + 1
                /\ settings' = newSettings
                /\ windows' = newWindows
                /\ questions' = applied.qs
                /\ nextPk' = applied.pk
                /\ answers' = [s \in Students |-> CascadeAnswers(answers[s], applied.qs)]
                /\ UNCHANGED sub
                /\ last' = Resp("update", "-", 200)

UpdateQuiz(newSettings, newWindows, questions_data) ==
    /\ UNCHANGED <<now, nextId, pc, req, snap>>
    /\ IF \/ \E i \in 1..Len(questions_data) : ~QuestionDataValid(questions_data[i])
          \/ ~WindowsValid(newWindows)
       THEN /\ last' = Resp("update", "-", 400)
            /\ UNCHANGED <<settings, windows, questions, nextPk, sub, answers>>
       ELSE \E applied \in {ApplyQuestions(questions, nextPk, questions_data)} :
            LET left == [s \in Students |-> CascadeAnswers(answers[s], applied.qs)]
            IN  /\ applied.pk.question <= MaxPk + 1
                /\ applied.pk.choice <= MaxPk + 1
                /\ settings' = newSettings
                /\ windows' = newWindows
                /\ questions' = applied.qs
                /\ nextPk' = applied.pk
                /\ answers' = [s \in Students |->
                                IF Exists(sub[s]) /\ sub[s].is_submitted
                                THEN ScoredAnswers(applied.qs, left[s]) ELSE left[s]]
                /\ sub' = [s \in Students |->
                                IF Exists(sub[s]) /\ sub[s].is_submitted
                                THEN [sub[s] EXCEPT !.score = calculate_score(applied.qs, left[s])]
                                ELSE sub[s]]
                /\ last' = Resp("update", "-", 200)

\* the update of Spec sends the questions as they are
QuestionInputs ==
    { <<QuestionData(1, "multiple", 2, <<ChoiceData(1, TRUE), ChoiceData(2, FALSE)>>)>> }

----------------------------------------------------------------------------
(* views.py: create_quiz with QuizCreateSerializer.create.  The quiz does   *)
(* not exist while no Question row was ever inserted; the payloads drawn   *)
(* give no ids.                                                            *)

NoQuestions == [q \in {} |-> ForeignQuestionRow]
NoQuizPk == [question |-> 1, choice |-> 1]
NoWindows == [c \in Centers |-> NoWindow]

QuizCreated == nextPk # NoQuizPk

CreateQuiz(newSettings, newWindows, questions_data) ==
    /\ ~QuizCreated
    /\ UNCHANGED <<now, sub, answers, nextId, pc, req, snap>>
    /\ IF \/ \E i \in 1..Len(questions_data) : ~QuestionDataValid(questions_data[i])
          \/ ~WindowsValid(newWindows)
       THEN /\ last' = Resp("create", "-", 400)
            /\ UNCHANGED <<settings, windows, questions, nextPk>>
       ELSE \E created \in {CreateNew([qs |-> NoQuestions, pk |-> NoQuizPk], questions_data, 1)} :
                /\ settings' = newSettings
                /\ windows' = newWindows
                /\ questions' = created.qs
                /\ nextPk' = created.pk
                /\ last' = Resp("create", "-", 201)

----------------------------------------------------------------------------
(* The writes of one quiz update in the order the code issues them inside  *)
(* its transaction.  A step is the kind of the write, the table it is on   *)
(* ("question" or "choice"), the question it belongs to and the Question   *)
(* rows after it.  The choices one question loses are deleted by one loop  *)
(* and are taken as one step.                                              *)

Write(kind, level, row) == [kind |-> kind, level |-> level, row |-> row]

\* QuestionSerializer.update lines 174-187: the entries of the choices list
\* in order; existing is the map read at line 165
RECURSIVE ChoiceWrites(_, _, _, _, _)
ChoiceWrites(row, existing, cs, i, next) ==
    IF i > Len(cs) THEN <<>>
    ELSE IF cs[i].id = 0
    THEN LET r == [row EXCEPT !.choices = @ \cup {next},
                              !.correct = IF cs[i].is_correct THEN @ \cup {next} ELSE @]
         IN  <<Write("create", "choice", r)>> \o ChoiceWrites(r, existing, cs, i + 1, next + 1)
    ELSE IF cs[i].id \in existing
    THEN LET r == [row EXCEPT !.correct = IF cs[i].is_correct THEN @ \cup {cs[i].id}
                                          ELSE @ \ {cs[i].id}]
         IN  <<Write("update", "choice", r)>> \o ChoiceWrites(r, existing, cs, i + 1, next)
    ELSE ChoiceWrites(row, existing, cs, i + 1, next)

\* QuestionSerializer.update: the fields of the question (line 162), the
\* deletes of lines 168-171, then the entries
QuestionWrites(row, qd, index, next) ==
    LET cs == qd.choices
        fields == [row EXCEPT !.selection_type = qd.selection_type,
                              !.points = qd.points, !.order = index]
        incoming_choice_ids == { cs[i].id : i \in 1..Len(cs) } \ {0}
        removed == row.choices \ incoming_choice_ids
        kept == [fields EXCEPT !.choices = @ \ removed, !.correct = @ \ removed]
    IN  <<Write("update", "question", fields)>>
        \o (IF removed # {} THEN <<Write("delete", "choice", kept)>> ELSE <<>>)
        \o ChoiceWrites(kept, row.choices \ removed, cs, 1, next)

\* QuestionSerializer.create: the Question row, then its choices
NewQuestionWrites(qd, index, next) ==
    LET row == QuestionRow(qd.selection_type, qd.points, index, {}, {})
    IN  <<Write("create", "question", row)>> \o ChoiceWrites(row, {}, qd.choices, 1, next)

\* the writes of one question put on the table of the quiz
OnTable(qs, id, writes) ==
    [k \in 1..Len(writes) |->
        [kind |-> writes[k].kind, level |-> writes[k].level, question |-> id,
         qs |-> [q \in DOMAIN qs \cup {id} |-> IF q = id THEN writes[k].row ELSE qs[q]]]]

\* step 1 of QuizCreateSerializer.update
RECURSIVE ExistingWrites(_, _, _)
ExistingWrites(st, data, i) ==
    IF i > Len(data) THEN <<>>
    ELSE IF data[i].id # 0 /\ data[i].id \in DOMAIN st.qs
    THEN OnTable(st.qs, data[i].id,
                 QuestionWrites(st.qs[data[i].id], data[i], i - 1, st.pk.choice))
         \o ExistingWrites(UpdateQuestion(st, data[i], i - 1), data, i + 1)
    ELSE ExistingWrites(st, data, i + 1)

\* step 2
RECURSIVE NewWrites(_, _, _)
NewWrites(st, data, i) ==
    IF i > Len(data) THEN <<>>
    ELSE IF data[i].id = 0
    THEN OnTable(st.qs, st.pk.question, NewQuestionWrites(data[i], i - 1, st.pk.choice))
         \o NewWrites(CreateQuestion(st, data[i], i - 1), data, i + 1)
    ELSE NewWrites(st, data, i + 1)

\* steps 1 to 3: the delete of line 358 comes last
UpdateWrites(qs, pk, data) ==
    LET updated == UpdateExisting([qs |-> qs, pk |-> pk], data, 1)
        created == CreateNew(updated, data, 1)
        applied == ApplyQuestions(qs, pk, data)
    IN  ExistingWrites([qs |-> qs, pk |-> pk], data, 1)
        \o NewWrites(updated, data, 1)
        \o (IF DOMAIN applied.qs # DOMAIN created.qs
            THEN <<[kind |-> "delete", level |-> "question", question |-> 0,
                    qs |-> applied.qs]>>
            ELSE <<>>)

----------------------------------------------------------------------------
(* serializers.py: the read paths.  A representation is the dict a         *)
(* serializer returns, reduced to the keys the visibility logic decides.   *)

NoScore == -1          \* a JSON null score (get_score returned None)

\* close_date + timedelta(minutes=timer_minutes) raises OverflowError
ReleaseOverflows(quiz_center, timer) ==
    timer > 0 /\ quiz_center.close_date + timer > MaxDateTime

\* PastRelease with the release instant itself counted as past
PastReleaseInclusive(quiz_center, timer, t) ==
    t >= quiz_center.close_date + (IF timer > 0 THEN timer ELSE 0)

\* timezone.now() > effective_release_time
PastRelease(quiz_center, timer, t) ==
    t > quiz_center.close_date + (IF timer > 0 THEN timer ELSE 0)

\* instance.is_submitted or instance.is_timed_out
Finished(row, timer, t) == row.is_submitted \/ is_timed_out(row, timer, t)

\* FieldVisible without the `if submission_is_finished` guard
FieldVisibleUnguarded(mode, submission_is_finished, is_quiz_closed, released) ==
    IF mode = "immediate" THEN TRUE
    ELSE IF mode = "after_close" THEN is_quiz_closed
    ELSE IF mode = "manual" THEN released
    ELSE FALSE

\* one of the two if/elif chains of SubmissionVisibilityMixin
FieldVisible(mode, submission_is_finished, is_quiz_closed, released) ==
    IF ~submission_is_finished THEN FALSE
    ELSE IF mode = "immediate" THEN TRUE
    ELSE IF mode = "after_close" THEN is_quiz_closed
    ELSE IF mode = "manual" THEN released
    ELSE FALSE

\* Visibility with the answers chain reading settings.score_visibility
VisibilityOneMode(row, st, wins, center, t) ==
    LET quiz_center == wins[center]
        is_quiz_closed == HasWindow(quiz_center) /\ PastRelease(quiz_center, st.timer_minutes, t)
        submission_is_finished == Finished(row, st.timer_minutes, t)
    IN  [score_visible |->
            FieldVisible(st.score_visibility, submission_is_finished,
                         is_quiz_closed, row.is_score_released),
         answers_visible |->
            FieldVisible(st.score_visibility, submission_is_finished,
                         is_quiz_closed, row.are_answers_released)]

\* score_is_visible and answers_are_visible of the mixin, for a submission
\* whose release time does not overflow
Visibility(row, st, wins, center, t) ==
    LET quiz_center == wins[center]
        is_quiz_closed == HasWindow(quiz_center) /\ PastRelease(quiz_center, st.timer_minutes, t)
        submission_is_finished == Finished(row, st.timer_minutes, t)
    IN  [score_visible |->
            FieldVisible(st.score_visibility, submission_is_finished,
                         is_quiz_closed, row.is_score_released),
         answers_visible |->
            FieldVisible(st.answers_visibility, submission_is_finished,
                         is_quiz_closed, row.are_answers_released)]

\* what to_representation returns on the overflow path: the bare False
FalseRepresentation ==
    [shape |-> "False", score_present |-> FALSE, score |-> NoScore,
     answers_present |-> FALSE, is_score_released |-> FALSE,
     are_answers_released |-> FALSE]

\* the 'score' value before hiding: the model field on the list path,
\* get_score on the detail path
BaseScore(kind, row, timer, t) ==
    IF kind = "list" THEN row.score
    ELSE IF Finished(row, timer, t)
         THEN (IF row.is_submitted THEN row.score ELSE 0)
         ELSE NoScore

\* SubmissionVisibilityMixin.to_representation on QuizSubmissionSerializer
\* (kind "list") and QuizSubmissionDetailSerializer (kind "detail")
Representation(kind, role, row, st, wins, center, t) ==
    LET quiz_center == wins[center]
        v == Visibility(row, st, wins, center, t)
    IN  IF HasWindow(quiz_center) /\ ReleaseOverflows(quiz_center, st.timer_minutes)
        THEN FalseRepresentation
        ELSE [shape |-> "dict",
              score_present |-> ~(role = "student" /\ ~v.score_visible),
              score |-> IF role = "student" /\ ~v.score_visible
                        THEN NoScore ELSE BaseScore(kind, row, st.timer_minutes, t),
              answers_present |-> kind = "detail" /\ ~(role = "student" /\ ~v.answers_visible),
              is_score_released |-> v.score_visible,
              are_answers_released |-> v.answers_visible]

\* StudentSubmissionStatusSerializer._is_quiz_closed
RosterClosed(st, wins, center, t) ==
    LET quiz_center == wins[center]
    IN  IF \A c \in Centers : ~HasWindow(wins[c]) THEN FALSE
        ELSE IF ~HasWindow(quiz_center) THEN FALSE
        ELSE IF ReleaseOverflows(quiz_center, st.timer_minutes) THEN FALSE
        ELSE PastRelease(quiz_center, st.timer_minutes, t)

\* get_is_score_released / get_are_answers_released of the roster
RosterReleased(mode, is_closed, row, released) ==
    IF mode = "immediate" THEN TRUE
    ELSE IF mode = "after_close" THEN is_closed
    ELSE IF mode = "manual" THEN (IF Exists(row) THEN released ELSE FALSE)
    ELSE FALSE

\* RosterStatus from the stored flags alone
RosterStatusStored(row, timer, t) ==
    IF ~Exists(row) THEN "Not Started"
    ELSE IF row.is_submitted THEN "Finished"
    ELSE IF row.end_time # Null THEN "Finished" ELSE "In Progress"

\* StudentSubmissionStatusSerializer.get_submission_status
RosterStatus(row, timer, t) ==
    IF ~Exists(row) THEN "Not Started"
    ELSE IF row.is_submitted THEN "Finished"
    ELSE IF is_timed_out(row, timer, t) THEN "Finished" ELSE "In Progress"

\* StudentSubmissionStatusSerializer.get_score: the numerator of the string
RosterScore(row, timer, t) ==
    IF ~Exists(row) THEN NoScore
    ELSE IF row.is_submitted THEN row.score
    ELSE IF is_timed_out(row, timer, t) THEN 0 ELSE NoScore

\* one row of the teacher roster
RosterRow(row, st, wins, center, t) ==
    LET is_closed == RosterClosed(st, wins, center, t)
    IN  [submission_status |-> RosterStatus(row, st.timer_minutes, t),
         is_score_released |->
            RosterReleased(st.score_visibility, is_closed, row, row.is_score_released),
         are_answers_released |->
            RosterReleased(st.answers_visibility, is_closed, row, row.are_answers_released)]

\* list_submissions lines 609-624: the students assigned to the quiz
Assigned == { s \in Students : StudentGrade(s) = QuizGrade /\ HasWindow(windows[StudentCenter(s)]) }

UnchangedStore ==
    UNCHANGED <<now, settings, windows, questions, nextPk, sub, answers, nextId, pc, req, snap>>

\* views.py: list_submissions, student branch
StudentList(s) ==
    /\ UnchangedStore
    /\ last' = DataResp("list", s, 200,
                IF Exists(sub[s])
                THEN <<Representation("list", "student", sub[s], settings, windows,
                                      StudentCenter(s), now)>>
                ELSE <<>>)

Roles == {"student", "teacher"}
DetailOp(role) == IF role = "student" THEN "detail" ELSE "teacher_detail"

\* views.py: submission_detail, GET.  Serializer.data wraps the result in a
\* ReturnDict, which raises on the bare False: the request fails with 500.
SubmissionDetail(role, s) ==
    /\ UnchangedStore
    /\ IF ~Exists(sub[s])
       THEN last' = Resp(DetailOp(role), s, 404)
       ELSE LET data == Representation("detail", role, sub[s], settings, windows,
                                       StudentCenter(s), now)
            IN  IF data.shape = "False"
                THEN last' = Resp(DetailOp(role), s, 500)
                ELSE last' = DataResp(DetailOp(role), s, 200, <<data>>)

\* views.py: list_submissions, teacher branch
Roster ==
    /\ UnchangedStore
    /\ last' = DataResp("roster", "-", 200,
                [s \in Assigned |-> RosterRow(sub[s], settings, windows, StudentCenter(s), now)])

\* views.py: check_quiz_availability
Availability(available, reason) == <<[available |-> available, reason |-> reason]>>

CheckAvailability(s) ==
    /\ UnchangedStore
    /\ LET quiz_center == windows[StudentCenter(s)]
       IN  last' = DataResp("availability", s, 200,
                IF QuizGrade # StudentGrade(s) THEN Availability(FALSE, "grade")
                ELSE IF ~HasWindow(quiz_center) THEN Availability(FALSE, "center")
                ELSE IF now < quiz_center.open_date THEN Availability(FALSE, "opens")
                ELSE IF now > quiz_center.close_date THEN Availability(FALSE, "closed")
                ELSE IF Exists(sub[s]) /\ sub[s].is_submitted
                THEN Availability(FALSE, "submitted")
                ELSE Availability(TRUE, "-"))

----------------------------------------------------------------------------

Next ==
    \/ Tick
    \/ \E s \in Takers : StartQuiz(s)
    \/ \E p \in Procs, s \in Takers, payload \in Payloads : SubmitRead(p, s, payload)
    \/ \E p \in Procs : SubmitFinalize(p)
    \/ \E p \in Procs : SubmitWrite(p)
    \/ \E s \in Takers : DeleteSubmission(s)
    \/ \E payload \in ReleasePayloads : ReleaseAll(payload[1], payload[2])
    \/ \E ns \in SettingsInputs, nw \in WindowInputs, nq \in QuestionInputs :
            UpdateQuiz(ns, nw, nq)

Spec == Init /\ [][Next]_vars

----------------------------------------------------------------------------
(* The read paths over every stored state: SpecVis starts from any quiz    *)
(* configuration and any submission row the lifecycle can leave behind     *)
(* (StoredRow, an invariant of Spec) and applies the three read handlers.  *)

StoredRow(row, t) ==
    Exists(row) =>
        /\ row.start_time \in 0..t
        /\ row.end_time = Null \/ row.end_time \in row.start_time..t
        /\ row.is_submitted => row.end_time # Null
        /\ ~row.is_submitted =>
            row.score = 0 /\ ~row.is_score_released /\ ~row.are_answers_released
        /\ row.score \in {0, OneQuestion[1].points}

VisRows(t) ==
    { row \in [id : {1}, start_time : 0..t, end_time : {Null} \cup 0..t,
               score : {0, OneQuestion[1].points}, is_submitted : BOOLEAN,
               is_score_released : BOOLEAN, are_answers_released : BOOLEAN] :
        StoredRow(row, t) }

VisWindows ==
    { wins \in [Centers -> {NoWindow} \cup
                    [open_date : {0}, close_date : {1, 2, MaxDateTime}]] :
        wins["c2"].close_date \in {Null, 1} /\ wins["c3"] = NoWindow }

InitVis ==
    /\ now \in 0..MaxClock
    /\ settings \in { st \in SettingsSet : st.question_order = "created" }
    /\ windows \in VisWindows
    /\ questions = OneQuestion
    /\ nextPk = OneQuestionPk
    /\ sub \in { [s \in Students |-> IF s = "s1" THEN row ELSE NoRow] :
                    row \in VisRows(now) \cup {NoRow} }
    /\ answers = [s \in Students |->
                    IF Exists(sub[s])
                    THEN LET ans == [q \in DOMAIN OneQuestion |->
                                        AnswerRow(IF sub[s].score > 0 THEN OneQuestion[q].correct ELSE {},
                                                  0, 0, FALSE)]
                         IN  IF sub[s].is_submitted THEN ScoredAnswers(OneQuestion, ans) ELSE ans
                    ELSE NoAnswers]
    /\ nextId = 2
    /\ Idle
    /\ last = NoResp

NextVis ==
    \/ \E s \in Students : StudentList(s)
    \/ \E role \in Roles, s \in Students : SubmissionDetail(role, s)
    \/ Roster

SpecVis == InitVis /\ [][NextVis]_vars

----------------------------------------------------------------------------
(* The quiz definition and the attempts on it: SpecQuiz starts from a quiz *)
(* of two questions, question 1 single-selection with choices 1 (correct)  *)
(* and 2, question 2 multiple-selection with choices 3 and 4 (both         *)
(* correct) and 5, and lets the teacher edit the questions while one       *)
(* student starts, reads the questions and submits.                        *)

TwoQuestions ==
    [q \in {1, 2} |->
        IF q = 1 THEN QuestionRow("single", 2, 0, {1, 2}, {1})
                 ELSE QuestionRow("multiple", 2, 1, {3, 4, 5}, {3, 4})]
TwoQuestionsPk == [question |-> 3, choice |-> 6]

QuizSettingsInputs ==
    { st \in SettingsSet :
        st.score_visibility = "immediate" /\ st.answers_visibility = "immediate" }

QuizWindowInputs ==
    { [c \in Centers |-> IF c = "c1" THEN [open_date |-> 0, close_date |-> 1] ELSE NoWindow],
      [c \in Centers |-> IF c = "c1" THEN [open_date |-> 1, close_date |-> 2] ELSE NoWindow] }

(* The 'questions' lists the teacher sends. *)
QuizQuestionInputs ==
    { \* both questions as created
      <<QuestionData(1, "single", 2, <<ChoiceData(1, TRUE), ChoiceData(2, FALSE)>>),
        QuestionData(2, "multiple", 2,
                     <<ChoiceData(3, TRUE), ChoiceData(4, TRUE), ChoiceData(5, FALSE)>>)>>,
      \* question 2 first, worth 4 points, choice 4 removed; question 1 with
      \* the other choice correct
      <<QuestionData(2, "multiple", 4, <<ChoiceData(3, TRUE), ChoiceData(5, FALSE)>>),
        QuestionData(1, "single", 2, <<ChoiceData(1, FALSE), ChoiceData(2, TRUE)>>)>>,
      \* question 2 removed, question 1 with a choice added
      <<QuestionData(1, "multiple", 2,
                     <<ChoiceData(1, TRUE), ChoiceData(2, FALSE), ChoiceData(0, TRUE)>>)>>,
      \* a single-selection question with two correct choices
      <<QuestionData(1, "single", 2, <<ChoiceData(1, TRUE), ChoiceData(2, TRUE)>>)>> }

(* The 'answers' lists the student sends. *)
QuizPayloads ==
    { NoEntries,
      <<Entry(1, {1})>>,
      <<Entry(1, {1, 2})>>,
      <<Entry(1, {1}), Entry(1, {2})>>,
      <<Entry(2, {3, 4, 5})>>,
      <<Entry(2, {3}), Entry(1, {2})>>,
      <<Entry(1, {3})>>,
      <<Entry(1, {1}), Entry(ForeignQuestion, {})>> }

InitQuiz ==
    /\ now = 0
    /\ settings \in QuizSettingsInputs
    /\ windows \in QuizWindowInputs
    /\ questions = TwoQuestions
    /\ nextPk = TwoQuestionsPk
    /\ sub = [s \in Students |-> NoRow]
    /\ answers = [s \in Students |-> NoAnswers]
    /\ nextId = 1
    /\ Idle
    /\ last = NoResp

NextQuiz ==
    \/ Tick
    \/ \E s \in Students : StartQuiz(s)
    \/ \E s \in Takers : ListQuestions(s)
    \/ \E s \in Takers, payload \in QuizPayloads : SubmitRead("p1", s, payload)
    \/ SubmitFinalize("p1")
    \/ SubmitWrite("p1")
    \/ \E s \in Takers : DeleteSubmission(s)
    \/ \E nq \in QuizQuestionInputs : UpdateQuiz(settings, windows, nq)

SpecQuiz == InitQuiz /\ [][NextQuiz]_vars

----------------------------------------------------------------------------
(* The scoring function alone: SpecScore draws one question (its points,   *)
(* its correct choices among three) and the selection of a submitted       *)
(* answer, and applies calculate_score as the rescoring loop of the quiz   *)
(* update does.                                                            *)

ScoreQuestions ==
    { [q \in {1} |-> QuestionRow("multiple", points, 0, {1, 2, 3}, correct)] :
        points \in {2, 10},
        correct \in { c \in SUBSET {1, 2, 3} : Cardinality(c) \in {1, 2} } }

InitScore ==
    /\ now = 0
    /\ settings \in { st \in SettingsInputs : st.timer_minutes = 0 /\ st.score_visibility = "manual" }
    /\ windows \in WindowInputs
    /\ questions \in ScoreQuestions
    /\ nextPk = [question |-> 2, choice |-> 4]
    /\ sub = [s \in Students |->
                IF s = "s1"
                THEN [NoRow EXCEPT !.id = 1, !.start_time = 0, !.end_time = 0, !.is_submitted = TRUE]
                ELSE NoRow]
    /\ answers \in { [s \in Students |->
                        IF s = "s1" THEN [q \in {1} |-> AnswerRow(selected, 0, 0, FALSE)]
                        ELSE NoAnswers] : selected \in SUBSET {1, 2, 3} }
    /\ nextId = 2
    /\ Idle
    /\ last = NoResp

\* views.py lines 339-345: submission.score = submission.calculate_score()
\* for the submitted attempts, then bulk_update
Rescore ==
    /\ answers' = [s \in Students |->
                    IF Exists(sub[s]) /\ sub[s].is_submitted
                    THEN ScoredAnswers(questions, answers[s]) ELSE answers[s]]
    /\ sub' = [s \in Students |->
                    IF Exists(sub[s]) /\ sub[s].is_submitted
                    THEN [sub[s] EXCEPT !.score = calculate_score(questions, answers[s])]
                    ELSE sub[s]]
    /\ last' = Resp("rescore", "-", 200)
    /\ UNCHANGED <<now, settings, windows, questions, nextPk, nextId, pc, req, snap>>

NextScore == Rescore

SpecScore == InitScore /\ [][NextScore]_vars

----------------------------------------------------------------------------
(* The attempts as the teacher and the student read them while the clock   *)
(* runs: SpecRead lets the students start and one of them submit, and      *)
(* applies the teacher roster between the steps.  The window of center c1  *)
(* stays open until the end of the clock.                                  *)

ReadSettingsInputs ==
    { st \in SettingsSet :
        /\ st.question_order = "created"
        /\ st.score_visibility = "immediate"
        /\ st.answers_visibility = "immediate" }

ReadWindowInputs ==
    { [c \in Centers |-> IF c = "c1" THEN [open_date |-> 0, close_date |-> 3] ELSE NoWindow],
      [c \in Centers |-> IF c = "c1" THEN [open_date |-> 0, close_date |-> 3]
                          ELSE IF c = "c2" THEN [open_date |-> 0, close_date |-> 1]
                          ELSE NoWindow] }

InitRead ==
    /\ now = 0
    /\ settings \in ReadSettingsInputs
    /\ windows \in ReadWindowInputs
    /\ questions = OneQuestion
    /\ nextPk = OneQuestionPk
    /\ sub = [s \in Students |-> NoRow]
    /\ answers = [s \in Students |-> NoAnswers]
    /\ nextId = 1
    /\ Idle
    /\ last = NoResp

NextRead ==
    \/ Tick
    \/ \E s \in Students : StartQuiz(s)
    \/ \E s \in Takers, payload \in Payloads : SubmitRead("p1", s, payload)
    \/ SubmitFinalize("p1")
    \/ SubmitWrite("p1")
    \/ Roster
    \/ \E s \in Students : CheckAvailability(s)

SpecRead == InitRead /\ [][NextRead]_vars

----------------------------------------------------------------------------
(* The quiz definition alone: SpecEdit creates the quiz and lets the       *)
(* teacher update its centers and questions, with no attempt on it.        *)

EditSettingsInputs ==
    { st \in SettingsSet :
        /\ st.timer_minutes = 0
        /\ st.question_order = "created"
        /\ st.score_visibility = "immediate"
        /\ st.answers_visibility = "immediate" }

\* the centers lists: one center of the teacher, one center of another
\* teacher, and a window that closes when it opens
EditWindowInputs ==
    { [c \in Centers |-> IF c = "c1" THEN [open_date |-> 0, close_date |-> 2] ELSE NoWindow],
      [c \in Centers |-> IF c = "c3" THEN [open_date |-> 0, close_date |-> 2] ELSE NoWindow],
      [c \in Centers |-> IF c = "c1" THEN [open_date |-> 1, close_date |-> 1] ELSE NoWindow] }

\* the 'questions' lists of create_quiz
CreateQuestionInputs ==
    { <<QuestionData(0, "single", 2, <<ChoiceData(0, TRUE), ChoiceData(0, FALSE)>>)>>,
      <<QuestionData(0, "single", 2, <<ChoiceData(0, TRUE), ChoiceData(0, FALSE)>>),
        QuestionData(0, "multiple", 2,
                     <<ChoiceData(0, TRUE), ChoiceData(0, TRUE), ChoiceData(0, FALSE)>>)>>,
      \* no choice marked correct
      <<QuestionData(0, "single", 2, <<ChoiceData(0, FALSE), ChoiceData(0, FALSE)>>)>> }

\* the 'questions' lists of the update
EditQuestionInputs ==
    { \* question 2 first, worth 4 points, choice 4 removed; question 1 with
      \* the other choice correct
      <<QuestionData(2, "multiple", 4, <<ChoiceData(3, TRUE), ChoiceData(5, FALSE)>>),
        QuestionData(1, "single", 2, <<ChoiceData(1, FALSE), ChoiceData(2, TRUE)>>)>>,
      \* a new question first, then question 1; every other question removed
      <<QuestionData(0, "single", 4, <<ChoiceData(0, TRUE)>>),
        QuestionData(1, "single", 2, <<ChoiceData(1, TRUE), ChoiceData(2, FALSE)>>)>>,
      \* question 1 keeps choice 2 alone, now the correct one
      <<QuestionData(1, "single", 2, <<ChoiceData(2, TRUE)>>)>>,
      \* question 1 with choice 2 and, marked correct, a choice of question 2
      <<QuestionData(1, "single", 2, <<ChoiceData(2, FALSE), ChoiceData(3, TRUE)>>)>>,
      \* question 1 with a choice added, question 2 as it was created
      <<QuestionData(1, "multiple", 2,
                     <<ChoiceData(1, TRUE), ChoiceData(2, FALSE), ChoiceData(0, FALSE)>>),
        QuestionData(2, "multiple", 2,
                     <<ChoiceData(3, TRUE), ChoiceData(4, TRUE), ChoiceData(5, FALSE)>>)>>,
      \* a single-selection question with two correct choices
      <<QuestionData(1, "single", 2, <<ChoiceData(1, TRUE), ChoiceData(2, TRUE)>>)>> }

InitEdit ==
    /\ now = 0
    /\ settings \in EditSettingsInputs
    /\ windows = NoWindows
    /\ questions = NoQuestions
    /\ nextPk = NoQuizPk
    /\ sub = [s \in Students |-> NoRow]
    /\ answers = [s \in Students |-> NoAnswers]
    /\ nextId = 1
    /\ Idle
    /\ last = NoResp

NextEdit ==
    \/ \E ns \in EditSettingsInputs, nw \in EditWindowInputs, nq \in CreateQuestionInputs :
            CreateQuiz(ns, nw, nq)
    \/ /\ QuizCreated
       /\ \E nw \in EditWindowInputs, nq \in EditQuestionInputs : UpdateQuiz(settings, nw, nq)

SpecEdit == InitEdit /\ [][NextEdit]_vars

----------------------------------------------------------------------------
(* views.py: start_quiz as concurrent requests see it. The lookup of       *)
(* get_or_create (lines 473-477) and its insert are two steps: a second    *)
(* request may look the row up before the first one commits. The           *)
(* transaction of lines 471-496 commits the row, its answer stubs and its  *)
(* start_time together, and unique_together (models.py:195) makes the      *)
(* insert of a second row for the same student fail, after which           *)
(* get_or_create returns the committed row.                                *)

StartBegin(p, s) ==
    /\ pc[p] = "idle"
    /\ UNCHANGED <<now, settings, windows, questions, nextPk, sub, answers, nextId>>
    /\ IF ~CanTakeQuiz(s)
       THEN /\ last' = Resp("start", s, 403)
            /\ UNCHANGED <<pc, req, snap>>
       ELSE IF Exists(sub[s])
       THEN /\ last' = DataResp("start", s, 200, StartData(sub[s]))
            /\ UNCHANGED <<pc, req, snap>>
       ELSE /\ pc' = [pc EXCEPT ![p] = "create"]
            /\ req' = [req EXCEPT ![p] = [student |-> s, answers |-> NoEntries]]
            /\ snap' = [snap EXCEPT ![p] = NoRow]
            /\ UNCHANGED last

\* StartCreate inserting without the unique constraint on (quiz, student)
StartCreateUnchecked(p) ==
    /\ pc[p] = "create"
    /\ UNCHANGED <<now, settings, windows, questions, nextPk>>
    /\ Done(p)
    /\ LET s == req[p].student
       IN  /\ nextId <= MaxRows
           /\ \E presented \in Presentations :
                   answers' = [answers EXCEPT ![s] =
                       [q \in QuestionIds |-> Stub(PositionIn(presented, q) - 1)]]
           /\ sub' = [sub EXCEPT ![s] = [NoRow EXCEPT !.id = nextId, !.start_time = now]]
           /\ nextId' = nextId + 1
           /\ last' = DataResp("start", s, 200, StartData(sub'[s]))

StartCreate(p) ==
    /\ pc[p] = "create"
    /\ UNCHANGED <<now, settings, windows, questions, nextPk>>
    /\ Done(p)
    /\ LET s == req[p].student
       IN  IF Exists(sub[s])
           THEN \* IntegrityError: get_or_create fetches the committed row
                /\ last' = DataResp("start", s, 200, StartData(sub[s]))
                /\ UNCHANGED <<sub, answers, nextId>>
           ELSE /\ nextId <= MaxRows
                /\ \E presented \in Presentations :
                        answers' = [answers EXCEPT ![s] =
                            [q \in QuestionIds |-> Stub(PositionIn(presented, q) - 1)]]
                /\ sub' = [sub EXCEPT ![s] = [NoRow EXCEPT !.id = nextId, !.start_time = now]]
                /\ nextId' = nextId + 1
                /\ last' = DataResp("start", s, 200, StartData(sub'[s]))

NextStart ==
    \/ Tick
    \/ \E p \in Procs, s \in Students : StartBegin(p, s)
    \/ \E p \in Procs : StartCreate(p)

SpecStart == InitQuiz /\ [][NextStart]_vars

----------------------------------------------------------------------------
(* Properties of the stored rows *)

TypeOK ==
    /\ now \in 0..MaxClock
    /\ settings \in SettingsSet
    /\ nextId \in 1..(MaxRows + 1)
    /\ \A s \in Students :
        /\ sub[s].id \in 0..MaxRows
        /\ sub[s].start_time \in {Null} \cup 0..MaxDateTime
        /\ sub[s].end_time \in {Null} \cup 0..MaxDateTime
        /\ sub[s].is_submitted \in BOOLEAN
    /\ \A p \in Procs : pc[p] \in {"idle", "finalize", "write"}

\* every row the lifecycle stores is one SpecVis starts from
RowsAreStored == \A s \in Students : StoredRow(sub[s], now)

\* the same row (same primary key) is stored before and after the step
SameRow(s) == Exists(sub[s]) /\ Exists(sub'[s]) /\ sub'[s].id = sub[s].id

\* process p completes the step it is waiting at
Completes(p, at) == pc[p] = at /\ pc'[p] = "idle"

(* C1: once a submission row has an end_time, every later state of that    *)
(* row has the same end_time.                                              *)
EndTimeWriteOnce ==
    [][\A s \in Students :
        (SameRow(s) /\ sub[s].end_time # Null) => sub'[s].end_time = sub[s].end_time]_vars

(* C2: once is_timed_out is true of a row it is true of that row in every  *)
(* later state, and a submit that reads it ends in the 409 conflict.       *)
TimeoutMonotone ==
    [][\A s \in Students :
        (SameRow(s) /\ is_timed_out(sub[s], settings.timer_minutes, now))
            => /\ is_timed_out(sub'[s], settings'.timer_minutes, now')
               /\ \A p \in Procs :
                    (pc[p] # "idle" /\ pc'[p] = "idle" /\ req[p].student = s)
                        => last'.status = 409]_vars

(* C3: at most one submit is accepted per row: a submit that is accepted   *)
(* (200: is_submitted, end_time and the score written) never lands on a    *)
(* row that an earlier accepted submit has already finalized.              *)
AcceptAtMostOnce ==
    [][\A p \in Procs :
        (Completes(p, "write") /\ last'.status = 200)
            => ~(Exists(sub[req[p].student])
                 /\ sub[req[p].student].id = snap[p].id
                 /\ sub[req[p].student].is_submitted)]_vars

(* C4: a submit on the timeout path that finds its row returns 409; if the *)
(* row has no end_time it stores end_time = start_time + timer_minutes and *)
(* score = 0 and leaves is_submitted false, otherwise it writes nothing.   *)
TimeoutFinalizeOnce ==
    [][\A p \in Procs :
        LET s == req[p].student
        IN  (Completes(p, "finalize") /\ Exists(sub[s]) /\ sub[s].id = snap[p].id)
            => /\ last' = Resp("submit", s, 409)
               /\ answers' = answers
               /\ IF sub[s].end_time = Null
                  THEN /\ sub'[s] = [sub[s] EXCEPT
                                        !.end_time = sub[s].start_time + settings.timer_minutes,
                                        !.score = 0]
                       /\ ~sub'[s].is_submitted
                  ELSE sub'[s] = sub[s]]_vars

\* a second timeout attempt is still in flight after the first one stored
\* the end_time of the timed-out row
TimeoutFinalizeOnceWitness ==
    \E p \in Procs :
        /\ pc[p] = "finalize"
        /\ last = Resp("submit", req[p].student, 409)
        /\ sub[req[p].student].id = snap[p].id
        /\ snap[p].end_time = Null
        /\ sub[req[p].student].end_time # Null
        /\ ~sub[req[p].student].is_submitted


----------------------------------------------------------------------------
(* Properties of the read paths *)

\* the last response is a student's own read (list or detail) of a row
StudentRead ==
    /\ last.op \in {"list", "detail"}
    /\ last.status = 200
    /\ Len(last.data) = 1

\* the row, the window and the finished state that read was computed from
ReadRow == sub[last.who]
ReadWindow == windows[StudentCenter(last.who)]
ReadFinished == Finished(ReadRow, settings.timer_minutes, now)

(* C5: a student's list or detail response carries the score or the        *)
(* answers only if the submission is finished (submitted or timed out).    *)
ExposedOnlyWhenFinished ==
    StudentRead =>
        ((last.data[1].score_present \/ last.data[1].answers_present) => ReadFinished)

\* an in-progress submission read on the detail path with both modes
\* 'immediate': neither the score nor the answers are in the response
ExposedOnlyWhenFinishedWitness ==
    /\ StudentRead
    /\ last.op = "detail"
    /\ ~ReadFinished
    /\ settings.score_visibility = "immediate"
    /\ settings.answers_visibility = "immediate"
    /\ ~last.data[1].score_present
    /\ ~last.data[1].answers_present

(* C6: changing only answers_visibility and are_answers_released never     *)
(* changes the score exposure, and changing only score_visibility and      *)
(* is_score_released never changes the answers exposure, on the student    *)
(* paths and on the roster.                                                *)
VisibilityIndependent ==
    \A s \in Students, kind \in {"list", "detail"}, m \in Modes, r \in BOOLEAN :
        Exists(sub[s]) =>
            LET c == StudentCenter(s)
                base == Representation(kind, "student", sub[s], settings, windows, c, now)
                ansAlt == Representation(kind, "student",
                            [sub[s] EXCEPT !.are_answers_released = r],
                            [settings EXCEPT !.answers_visibility = m], windows, c, now)
                scoreAlt == Representation(kind, "student",
                            [sub[s] EXCEPT !.is_score_released = r],
                            [settings EXCEPT !.score_visibility = m], windows, c, now)
                rbase == RosterRow(sub[s], settings, windows, c, now)
                ransAlt == RosterRow([sub[s] EXCEPT !.are_answers_released = r],
                            [settings EXCEPT !.answers_visibility = m], windows, c, now)
                rscoreAlt == RosterRow([sub[s] EXCEPT !.is_score_released = r],
                            [settings EXCEPT !.score_visibility = m], windows, c, now)
            IN  /\ ansAlt.score_present = base.score_present
                /\ ansAlt.score = base.score
                /\ ansAlt.is_score_released = base.is_score_released
                /\ scoreAlt.answers_present = base.answers_present
                /\ scoreAlt.are_answers_released = base.are_answers_released
                /\ ransAlt.is_score_released = rbase.is_score_released
                /\ rscoreAlt.are_answers_released = rbase.are_answers_released

\* a detail response that shows the score while the answers, under another
\* mode, stay hidden
VisibilityIndependentWitness ==
    /\ StudentRead
    /\ last.op = "detail"
    /\ settings.score_visibility = "manual"
    /\ settings.answers_visibility = "after_close"
    /\ last.data[1].score_present
    /\ ~last.data[1].answers_present

(* C7: under after_close a finished submission's score (answers) is in the *)
(* student's response exactly when now > close_date + timer_minutes of the *)
(* window of the student's own center; never without such a window; and    *)
(* the windows of the other centers do not matter.                         *)
AfterCloseExact ==
    StudentRead /\ ReadFinished =>
        LET released == HasWindow(ReadWindow)
                        /\ now > ReadWindow.close_date + settings.timer_minutes
            kind == last.op
        IN  /\ settings.score_visibility = "after_close"
                => (last.data[1].score_present <=> released)
            /\ (kind = "detail" /\ settings.answers_visibility = "after_close")
                => (last.data[1].answers_present <=> released)
            /\ \A c \in Centers \ {StudentCenter(last.who)}, w \in VisWindows :
                Representation(kind, "student", ReadRow, settings,
                               [windows EXCEPT ![c] = w[c]], StudentCenter(last.who), now)
                    = last.data[1]

\* timer 0 and close_date = T: the score is shown at T + 1
AfterCloseExactWitness ==
    /\ StudentRead
    /\ ReadFinished
    /\ settings.score_visibility = "after_close"
    /\ settings.timer_minutes = 0
    /\ HasWindow(ReadWindow)
    /\ now = ReadWindow.close_date + 1
    /\ last.data[1].score_present

\* the same submission at T itself: hidden although submitted
AfterCloseHiddenAtClose ==
    /\ StudentRead
    /\ ReadFinished
    /\ settings.score_visibility = "after_close"
    /\ settings.timer_minutes = 0
    /\ now = ReadWindow.close_date
    /\ ~last.data[1].score_present

(* C8: for every assigned student with a submission the roster reports the *)
(* is_score_released and are_answers_released values the student's list    *)
(* and detail responses carry.                                             *)
RosterAgreesWithResolver ==
    \A s \in Assigned, kind \in {"list", "detail"} :
        Exists(sub[s]) =>
            LET c == StudentCenter(s)
                mine == Representation(kind, "student", sub[s], settings, windows, c, now)
                theirs == RosterRow(sub[s], settings, windows, c, now)
            IN  /\ theirs.is_score_released = mine.is_score_released
                /\ theirs.are_answers_released = mine.are_answers_released

(* C9: when close_date + timer_minutes overflows, every read of the        *)
(* submission still succeeds with the usual representation, computed as    *)
(* for a quiz that is not closed yet.                                      *)
OverflowKeepsShape ==
    (/\ last.op \in {"list", "detail", "teacher_detail"}
     /\ Exists(sub[last.who])
     /\ HasWindow(ReadWindow)
     /\ ReleaseOverflows(ReadWindow, settings.timer_minutes))
        => /\ last.status = 200
           /\ Len(last.data) = 1
           /\ last.data[1].shape = "dict"
           /\ last.data[1].is_score_released =
                FieldVisible(settings.score_visibility, ReadFinished, FALSE,
                             ReadRow.is_score_released)
           /\ last.data[1].are_answers_released =
                FieldVisible(settings.answers_visibility, ReadFinished, FALSE,
                             ReadRow.are_answers_released)

----------------------------------------------------------------------------
(* Properties of release-all *)

(* C10: a release-all call changes is_score_released only when             *)
(* release_score is in the payload and score_visibility is 'manual', and   *)
(* are_answers_released only when release_answers is in the payload and    *)
(* answers_visibility is 'manual'; it answers 409 and changes nothing when *)
(* no requested field is manual, 200 when one is; it never changes score,  *)
(* start_time, end_time or is_submitted.                                   *)
ReleaseAllFrame ==
    [][last'.op = "release" => \A payload \in ReleasePayloads :
        LET rs == payload[1]
            ra == payload[2]
        IN  ReleaseAll(rs, ra) =>
            LET scoreOk == rs # "absent" /\ settings.score_visibility = "manual"
                answersOk == ra # "absent" /\ settings.answers_visibility = "manual"
            IN  /\ \A s \in Students :
                    /\ sub'[s].is_score_released # sub[s].is_score_released => scoreOk
                    /\ sub'[s].are_answers_released # sub[s].are_answers_released => answersOk
                    /\ sub'[s].id = sub[s].id
                    /\ sub'[s].score = sub[s].score
                    /\ sub'[s].start_time = sub[s].start_time
                    /\ sub'[s].end_time = sub[s].end_time
                    /\ sub'[s].is_submitted = sub[s].is_submitted
                /\ answers' = answers
                /\ (rs # "absent" \/ ra # "absent") =>
                    IF scoreOk \/ answersOk
                    THEN last'.status = 200
                    ELSE last'.status = 409 /\ sub' = sub]_vars

\* a successful release on a quiz whose score mode is not manual: the
\* answers flag of the submitted row is set, the score flag is not
ReleaseAllFrameWitness ==
    /\ last.op = "release"
    /\ last.status = 200
    /\ settings.score_visibility # "manual"
    /\ settings.answers_visibility = "manual"
    /\ \E s \in Students :
        /\ sub[s].is_submitted
        /\ sub[s].are_answers_released
        /\ ~sub[s].is_score_released

\* a release refused with the conflict
ReleaseAllConflict ==
    /\ last = Resp("release", "-", 409)
    /\ \E s \in Students : sub[s].is_submitted

(* C11: after a successful release-all with release_score = true on a quiz *)
(* whose score_visibility is 'manual', every finished submission of the    *)
(* quiz (submitted or timed out) has its score visible to its student; and *)
(* likewise for release_answers and the answers.                           *)
ReleaseReachesAllFinished ==
    [][(last'.op = "release" /\ last'.status = 200) => \A payload \in ReleasePayloads :
        LET rs == payload[1]
            ra == payload[2]
        IN  ReleaseAll(rs, ra) =>
            \A s \in Students :
                (Exists(sub'[s]) /\ Finished(sub'[s], settings.timer_minutes, now)) =>
                    LET v == Visibility(sub'[s], settings, windows, StudentCenter(s), now)
                    IN  /\ (rs = "true" /\ settings.score_visibility = "manual")
                            => v.score_visible
                        /\ (ra = "true" /\ settings.answers_visibility = "manual")
                            => v.answers_visible]_vars

----------------------------------------------------------------------------
(* Properties of the zero timer *)

(* C18, as claimed: while timer_minutes is 0 no submission is reported as  *)
(* timed out and no submit of a started, unsubmitted student is turned     *)
(* away on the timeout path.                                               *)
ZeroTimerNeverTimedOut ==
    [][settings.timer_minutes = 0 =>
        /\ \A s \in Students :
                Exists(sub[s]) => ~is_timed_out(sub[s], settings.timer_minutes, now)
        /\ \A p \in Procs : pc[p] = "idle" => pc'[p] # "finalize"]_vars

(* C18, amended: while timer_minutes is 0 no submission without a stored   *)
(* end_time is reported as timed out, however long ago it started, and a   *)
(* submit enters the timeout path only for a row whose end_time is stored; *)
(* every other submit of an unsubmitted row goes on to validation.         *)
ZeroTimerNoLiveTimeout ==
    [][settings.timer_minutes = 0 =>
        /\ \A s \in Students :
                (Exists(sub[s]) /\ sub[s].end_time = Null)
                    => ~is_timed_out(sub[s], settings.timer_minutes, now)
        /\ \A p \in Procs :
                (pc[p] = "idle" /\ pc'[p] = "finalize")
                    => sub[req'[p].student].end_time # Null]_vars

\* a submit accepted under the zero timer later than start_time plus the
\* grace
ZeroTimerNoLiveTimeoutWitness ==
    /\ settings.timer_minutes = 0
    /\ last.op = "submit"
    /\ last.status = 200
    /\ sub[last.who].is_submitted
    /\ sub[last.who].end_time = now
    /\ sub[last.who].end_time > sub[last.who].start_time + GRACE

----------------------------------------------------------------------------
(* Properties of the delete *)

(* C20: once a submission is deleted there is no row for that student      *)
(* until the student's next start, also when a submit of that student is   *)
(* in flight; the row the next start creates is a fresh attempt: started   *)
(* now, not finalized, with empty stubs.                                   *)
DeleteUntilNextStart ==
    [][\A s \in Students :
        (~Exists(sub[s]) /\ Exists(sub'[s])) =>
            /\ last' = Resp("start", s, 200)
            /\ sub'[s] = [NoRow EXCEPT !.id = sub'[s].id, !.start_time = now]
            /\ sub'[s].id = nextId
            /\ \A q \in DOMAIN answers'[s] : answers'[s][q].selected_choices = {}]_vars

----------------------------------------------------------------------------
(* Properties of start *)

\* the grade matches and the window of the student's center is open
Eligible(s) ==
    /\ StudentGrade(s) = QuizGrade
    /\ HasWindow(windows[StudentCenter(s)])
    /\ windows[StudentCenter(s)].open_date <= now
    /\ now <= windows[StudentCenter(s)].close_date

(* C12: a start succeeds when the student's grade is the quiz's grade and  *)
(* the quiz has a window for the student's center with open_date <= now <= *)
(* close_date; in every other case it is rejected and no submission row    *)
(* and no answer stub is created or changed.                               *)
StartOnlyWhenEligible ==
    [][\A s \in Students :
        (last'.op = "start" /\ pc' = pc /\ StartQuiz(s)) =>
            IF Eligible(s)
            THEN last'.status = 200
            ELSE /\ last' = Resp("start", s, 403)
                 /\ sub' = sub
                 /\ answers' = answers
                 /\ nextId' = nextId]_vars

\* a student of another grade is refused while the window of the center is
\* open, and has no row
StartOnlyWhenEligibleWitness ==
    /\ last = Resp("start", "s3", 403)
    /\ Eligible("s1")
    /\ ~Exists(sub["s3"])

(* C13: a start for a submission that exists returns its start_time and    *)
(* writes nothing; while a submission lives no stub is added to it and no  *)
(* stored order changes; and every question list the student reads is the  *)
(* submission's questions by increasing stored order.                      *)
StartIdempotentOrderFixed ==
    [][\A s \in Students :
        /\ (last'.op = "start" /\ last'.status = 200 /\ Exists(sub[s]) /\ pc' = pc /\ StartQuiz(s))
                => /\ last'.data[1].start_time = sub[s].start_time
                   /\ last'.data[1].submission_id = sub[s].id
                   /\ sub' = sub
                   /\ answers' = answers
                   /\ nextId' = nextId
        /\ SameRow(s)
                => /\ DOMAIN answers'[s] \subseteq DOMAIN answers[s]
                   /\ \A q \in DOMAIN answers'[s] : answers'[s][q].order = answers[s][q].order
        /\ (last'.op = "questions" /\ last'.status = 200 /\ pc' = pc /\ ListQuestions(s))
                => LET listed == last'.data[1]
                   IN  /\ { listed[i] : i \in 1..Len(listed) } = DOMAIN answers[s]
                       /\ \A i, j \in 1..Len(listed) :
                            i < j => answers[s][listed[i]].order < answers[s][listed[j]].order]_vars

\* a shuffled attempt: the student reads question 2 before question 1,
\* against the order of the quiz, some time after the start
StartIdempotentOrderFixedWitness ==
    /\ last = DataResp("questions", "s1", 200, << <<2, 1>> >>)
    /\ {1, 2} \subseteq DOMAIN questions
    /\ QuestionBefore(questions, 1, 2)
    /\ sub["s1"].start_time < now

----------------------------------------------------------------------------
(* Properties of the submitted answers *)

\* the submit of student s that process p starts reaches the validation:
\* the row exists, is not submitted and is not timed out
ReachesValidation(s) ==
    /\ Exists(sub[s])
    /\ ~sub[s].is_submitted
    /\ ~is_timed_out(sub[s], settings.timer_minutes, now)

(* C14: a submit that reaches validation and names a question outside the  *)
(* submission's answers is answered 400 and changes neither the row nor    *)
(* any stored answer; one that names only questions of the submission,     *)
(* with choices of those questions, goes on to the accepting transaction;  *)
(* after an accepted submit the selections stored for each answer are      *)
(* exactly those the payload gives for its question; and the transaction   *)
(* accepts the payload when the row it read is still stored, the payload   *)
(* still names answers and choices that exist and gives no choice twice    *)
(* for a question.                                                         *)
ForeignQuestionRejected ==
    [][/\ \A s \in Takers, payload \in QuizPayloads :
            (pc["p1"] = "idle" /\ ReachesValidation(s) /\ SubmitRead("p1", s, payload)) =>
                IF ~(SubmittedQuestionIds(payload) \subseteq DOMAIN answers[s])
                THEN /\ last' = Resp("submit", s, 400)
                     /\ pc' = pc
                     /\ sub' = sub
                     /\ answers' = answers
                ELSE (\A i \in 1..Len(payload) :
                        /\ payload[i].selected_choices \subseteq questions[payload[i].question_id].choices
                        /\ questions[payload[i].question_id].selection_type = "single"
                            => Cardinality(payload[i].selected_choices) <= 1)
                     => pc'["p1"] = "write" /\ req'["p1"].answers = payload
       /\ \A p \in Procs :
            (Completes(p, "write") /\ last'.status = 200) =>
                \A q \in DOMAIN answers'[req[p].student] :
                    answers'[req[p].student][q].selected_choices
                        = UNION { req[p].answers[i].selected_choices :
                                    i \in { j \in 1..Len(req[p].answers) :
                                                req[p].answers[j].question_id = q } }
       /\ \A p \in Procs :
            (/\ Completes(p, "write")
             /\ Exists(sub[req[p].student])
             /\ sub[req[p].student].id = snap[p].id
             /\ \A i \in 1..Len(req[p].answers) :
                    /\ req[p].answers[i].question_id \in DOMAIN answers[req[p].student]
                    /\ req[p].answers[i].selected_choices
                            \subseteq questions[req[p].answers[i].question_id].choices
             /\ ~DuplicateSelection(req[p].answers))
                => /\ last'.status = 200
                   /\ sub'[req[p].student].is_submitted]_vars

\* a submit refused at validation on an attempt in progress
ForeignQuestionRejectedWitness ==
    /\ last = Resp("submit", "s1", 400)
    /\ Exists(sub["s1"])
    /\ ~sub["s1"].is_submitted
    /\ sub["s1"].end_time = Null
    /\ \A q \in DOMAIN answers["s1"] : answers["s1"][q].selected_choices = {}

(* C15: a payload that selects more than one choice for a single-selection *)
(* question never passes validation, and after an accepted submit every    *)
(* answer of a single-selection question stores at most one choice.        *)
SingleSelectionAtMostOne ==
    [][\A p \in Procs :
        /\ (pc[p] = "idle" /\ pc'[p] = "write") =>
                \A q \in DOMAIN questions :
                    questions[q].selection_type = "single"
                        => Cardinality(SelectedFor(req'[p].answers, q)) <= 1
        /\ (Completes(p, "write") /\ last'.status = 200) =>
                \A q \in DOMAIN answers'[req[p].student] :
                    questions[q].selection_type = "single"
                        => Cardinality(answers'[req[p].student][q].selected_choices) <= 1]_vars

----------------------------------------------------------------------------
(* Properties of the scores *)

(* C16: for an answer with St selections, Sc of them correct, of a         *)
(* question with C >= 1 correct choices, the points calculate_score stores *)
(* are max(0, (Sc/C)*points - ((St-Sc)/C)*points), they lie between 0 and  *)
(* the question's points, and the answer is flagged correct exactly when   *)
(* Sc = C and St = C.                                                      *)
PartialCreditFormula ==
    last.op = "rescore" =>
        \A s \in Students : \A q \in DOMAIN answers[s] :
            LET C == Cardinality(questions[q].correct)
                St == Cardinality(answers[s][q].selected_choices)
                Sc == Cardinality(answers[s][q].selected_choices \cap questions[q].correct)
                net == (Sc - (St - Sc)) * questions[q].points
                awarded == answers[s][q].points_earned
            IN  C >= 1 =>
                    /\ C * awarded = (IF net > 0 THEN net ELSE 0)
                    /\ awarded >= 0
                    /\ awarded <= questions[q].points
                    /\ answers[s][q].is_correct <=> (Sc = C /\ St = C)
                    /\ sub[s].score = awarded

\* two correct choices, 10 points: both selected with one wrong one gives
\* 5 points and the answer is not flagged correct
PartialCreditFormulaWitness ==
    /\ last.op = "rescore"
    /\ questions[1].points = 10
    /\ Cardinality(questions[1].correct) = 2
    /\ answers["s1"][1].selected_choices = {1, 2, 3}
    /\ answers["s1"][1].points_earned = 5
    /\ ~answers["s1"][1].is_correct

(* C17: the stored score of every submitted submission is the sum, over    *)
(* its answers, of the points the formula awards against the current       *)
(* questions and choices, the stored marks of its answers are those        *)
(* points, and scoring it again gives the same score.                      *)
ScoreFollowsQuiz ==
    \A s \in Students :
        (Exists(sub[s]) /\ sub[s].is_submitted) =>
            /\ DOMAIN answers[s] \subseteq DOMAIN questions
            /\ sub[s].score = calculate_score(questions, answers[s])
            /\ \A q \in DOMAIN answers[s] :
                    /\ answers[s][q].selected_choices \subseteq questions[q].choices
                    /\ answers[s][q].points_earned
                            = AnswerPoints(questions[q], answers[s][q].selected_choices)
            /\ calculate_score(questions, ScoredAnswers(questions, answers[s])) = sub[s].score

\* a submitted attempt rescored by a quiz update: question 2 now worth 4
\* points with its remaining correct choice selected, question 1 with the
\* selected choice now the correct one
ScoreFollowsQuizWitness ==
    /\ last = Resp("update", "-", 200)
    /\ sub["s1"].is_submitted
    /\ questions # TwoQuestions
    /\ sub["s1"].score = 6

----------------------------------------------------------------------------
(* Properties of the grace *)

(* C19: the confirmation of an accepted submit reports 'late' exactly when *)
(* end_time - start_time exceeds timer_minutes plus the 60 seconds of      *)
(* grace, the threshold at which the live check of is_timed_out turns      *)
(* true for the same start_time; with timer_minutes = 0 it always reports  *)
(* 'on_time'.                                                              *)
GraceUniform ==
    [][\A p \in Procs :
        (Completes(p, "write") /\ last'.status = 200) =>
            LET row == sub'[req[p].student]
                timer == settings.timer_minutes
                status == last'.data[1].submission_status
                running == [row EXCEPT !.is_submitted = FALSE, !.end_time = Null]
            IN  /\ last'.data[1].end_time = row.end_time
                /\ status \in {"on_time", "late"}
                /\ timer = 0 => status = "on_time"
                /\ timer > 0 =>
                    /\ status = "late" <=> row.end_time - row.start_time > timer + GRACE
                    /\ status = "late" <=> is_timed_out(running, timer, row.end_time)]_vars

\* a submit read in time and written after the deadline and the grace:
\* accepted and reported late
GraceUniformWitness ==
    /\ last.op = "submit"
    /\ last.status = 200
    /\ settings.timer_minutes > 0
    /\ last.data[1].submission_status = "late"

----------------------------------------------------------------------------
(* Properties of the teacher roster *)

(* C21: the roster has one row for each student of the quiz's grade whose  *)
(* center is a center of the quiz, with or without a submission; the row   *)
(* reads 'Not Started' without a submission, 'Finished' when is_submitted  *)
(* or when the row is not submitted and end_time is set or timer > 0 and   *)
(* now > start_time + timer + 60 s, and 'In Progress' otherwise, from the  *)
(* clock of the read and without a write.                                  *)
RosterLiveStatus ==
    [][Roster =>
        /\ DOMAIN last'.data =
                { s \in Students :
                    /\ StudentGrade(s) = QuizGrade
                    /\ \E c \in Centers : HasWindow(windows[c]) /\ StudentCenter(s) = c }
        /\ \A s \in DOMAIN last'.data :
                last'.data[s].submission_status =
                    IF ~Exists(sub[s]) THEN "Not Started"
                    ELSE IF \/ sub[s].is_submitted
                            \/ /\ ~sub[s].is_submitted
                               /\ \/ sub[s].end_time # Null
                                  \/ /\ settings.timer_minutes > 0
                                     /\ now > sub[s].start_time + settings.timer_minutes + GRACE
                    THEN "Finished"
                    ELSE "In Progress"
        /\ sub' = sub]_vars

\* the roster reads 'Finished' for an attempt nothing was written to, one
\* minute after its deadline and grace, next to a student who has not
\* started
RosterLiveStatusWitness ==
    /\ last.op = "roster"
    /\ DOMAIN last.data = {"s1", "s2"}
    /\ last.data["s1"].submission_status = "Finished"
    /\ last.data["s2"].submission_status = "Not Started"
    /\ ~sub["s1"].is_submitted
    /\ sub["s1"].end_time = Null
    /\ now = sub["s1"].start_time + settings.timer_minutes + GRACE + 1

----------------------------------------------------------------------------
(* Properties of the quiz definition *)

\* the index of the only entry of a list that carries the id
EntryOf(list, id) == CHOOSE i \in 1..Len(list) : list[i].id = id

\* the entries of a list without id
WithoutId(list) == { i \in 1..Len(list) : list[i].id = 0 }

(* C22: after a successful update with a questions list, the questions of  *)
(* the quiz are the existing ones the list names, updated, and one new     *)
(* question for each entry without id; every other existing question is    *)
(* deleted; the order of each question is its position in the list; and    *)
(* the choices of each updated question follow the same rule.              *)
QuestionDiff ==
    [][\A nw \in EditWindowInputs, nq \in EditQuestionInputs :
        (QuizCreated /\ UpdateQuiz(settings, nw, nq) /\ last'.status = 200) =>
            LET matched == { nq[i].id : i \in 1..Len(nq) } \cap DOMAIN questions
                NewId(i) == nextPk.question + Cardinality({ j \in WithoutId(nq) : j < i })
            IN  /\ DOMAIN questions' \cap DOMAIN questions = matched
                /\ DOMAIN questions' \ DOMAIN questions = { NewId(i) : i \in WithoutId(nq) }
                /\ Cardinality(DOMAIN questions' \ DOMAIN questions) = Cardinality(WithoutId(nq))
                /\ \A i \in WithoutId(nq) :
                        /\ questions'[NewId(i)].order = i - 1
                        /\ questions'[NewId(i)].points = nq[i].points
                        /\ Cardinality(questions'[NewId(i)].choices) = Len(nq[i].choices)
                /\ \A q \in matched :
                        LET qd == nq[EntryOf(nq, q)]
                            cs == qd.choices
                            named == { cs[i].id : i \in 1..Len(cs) }
                            old == questions[q].choices
                            new == questions'[q].choices
                        IN  /\ questions'[q].order = EntryOf(nq, q) - 1
                            /\ questions'[q].points = qd.points
                            /\ questions'[q].selection_type = qd.selection_type
                            /\ new \cap old = named \cap old
                            /\ Cardinality(new \ old) = Cardinality(WithoutId(cs))
                            /\ \A c \in new \cap old :
                                    c \in questions'[q].correct <=> cs[EntryOf(cs, c)].is_correct]_vars

\* an update that created question 3 in front, kept question 1 behind it
\* and removed question 2
QuestionDiffWitness ==
    /\ last = Resp("update", "-", 200)
    /\ DOMAIN questions = {1, 3}
    /\ questions[3].order = 0
    /\ questions[1].order = 1
    /\ nextPk.question = 4

(* C23: every stored question that has choices has a choice marked         *)
(* correct, and every stored single-selection question has exactly one;    *)
(* a create or update answered 400 has stored nothing.                     *)
ChoicesKeepCorrect ==
    /\ \A q \in DOMAIN questions :
            /\ questions[q].choices # {} => questions[q].correct # {}
            /\ questions[q].selection_type = "single"
                    => Cardinality(questions[q].correct) = 1
    /\ (last.op \in {"create", "update"} /\ last.status = 400 /\ ~QuizCreated)
            => questions = NoQuestions /\ windows = NoWindows

(* C24: a create or update whose centers list names a center of another   *)
(* teacher is answered 400 and stores nothing, so no stored quiz has a     *)
(* window for a center its teacher does not own.                           *)
OwnCentersOnly ==
    \A c \in Centers : HasWindow(windows[c]) => CenterTeacher(c) = QuizTeacher

----------------------------------------------------------------------------
(* Properties of the lifecycle *)

InProgressRow(row) ==
    row.start_time # Null /\ row.end_time = Null /\ ~row.is_submitted
SubmittedRow(row) ==
    row.is_submitted /\ row.start_time # Null /\ row.end_time # Null
TimedOutRow(row) ==
    ~row.is_submitted /\ row.end_time # Null /\ row.score = 0

(* C25: every stored submission row is in exactly one of the states        *)
(* IN_PROGRESS, SUBMITTED and TIMED_OUT: its start_time is set,            *)
(* is_submitted implies end_time set, a row that is not submitted has the  *)
(* stored score 0, and every read path that shows a score for an attempt   *)
(* that is finished and not submitted shows 0.                             *)
LifecycleStates ==
    \A s \in Students :
        Exists(sub[s]) =>
            LET row == sub[s]
                timer == settings.timer_minutes
            IN  /\ Cardinality({ st \in {"IN_PROGRESS", "SUBMITTED", "TIMED_OUT"} :
                        \/ st = "IN_PROGRESS" /\ InProgressRow(row)
                        \/ st = "SUBMITTED" /\ SubmittedRow(row)
                        \/ st = "TIMED_OUT" /\ TimedOutRow(row) }) = 1
                /\ row.start_time # Null
                /\ row.is_submitted => row.end_time # Null
                /\ ~row.is_submitted => row.score = 0
                /\ (~row.is_submitted /\ is_timed_out(row, timer, now)) =>
                        /\ RosterScore(row, timer, now) = 0
                        /\ \A kind \in {"list", "detail"}, role \in Roles :
                                Representation(kind, role, row, settings, windows,
                                               StudentCenter(s), now).score \in {0, NoScore}

\* an attempt finalized by the timeout path next to nothing else: not
\* submitted, end_time at the nominal deadline, score 0
LifecycleStatesWitness ==
    /\ last = Resp("submit", "s1", 409)
    /\ TimedOutRow(sub["s1"])
    /\ sub["s1"].end_time = sub["s1"].start_time + settings.timer_minutes
    /\ settings.timer_minutes > 0


\* C26: concurrent start requests of one student leave one submission row:
\* once created it is never replaced or changed by a start, it has one
\* answer stub per question of the quiz whose orders are exactly
\* 0..n-1, and every 200 response carries the start_time of that row
StubsArePermutation(s) ==
    /\ DOMAIN answers[s] = QuestionIds
    /\ { answers[s][q].order : q \in QuestionIds } = 0..(Cardinality(QuestionIds) - 1)

StartOnce ==
    [][\A s \in Students :
        /\ Exists(sub[s]) => (sub'[s] = sub[s] /\ answers'[s] = answers[s])
        /\ Exists(sub'[s]) => StubsArePermutation(s)'
        /\ (last'.op = "start" /\ last'.who = s /\ last'.status = 200) =>
                /\ Exists(sub'[s])
                /\ last'.data = StartData(sub'[s])]_vars

\* a request that found no row is about to insert while the row of another
\* request of the same student is committed and was returned
StartOnceWitness ==
    \E p \in Procs :
        /\ pc[p] = "create"
        /\ req[p].student = "s1"
        /\ Exists(sub["s1"])
        /\ sub["s1"].start_time < now
        /\ last.op = "start" /\ last.who = "s1" /\ last.status = 200
        /\ last.data = StartData(sub["s1"])


\* C27: in a successful quiz update the question pass and the choice pass
\* of each question issue their updates and creates before their deletes,
\* and after every write each question that the update retains and that
\* has choices has a correct choice
DeletesLast(writes) ==
    \A i, j \in 1..Len(writes) :
        (i < j /\ writes[i].kind = "delete" /\ writes[j].kind # "delete") =>
            \/ writes[i].level # writes[j].level
            \/ (writes[i].level = "choice" /\ writes[i].question # writes[j].question)

RetainedKeepCorrect(before, after, writes) ==
    \A k \in 1..Len(writes) :
        \A q \in DOMAIN before \cap DOMAIN after \cap DOMAIN writes[k].qs :
            writes[k].qs[q].choices # {} => writes[k].qs[q].correct # {}

UpdatesBeforeDeletes ==
    [][\A nw \in EditWindowInputs, nq \in EditQuestionInputs :
        (UpdateQuiz(settings, nw, nq) /\ last'.status = 200) =>
            \E writes \in {UpdateWrites(questions, nextPk, nq)} :
                /\ DeletesLast(writes)
                /\ RetainedKeepCorrect(questions, questions', writes)]_vars


----------------------------------------------------------------------------
(* Properties of the accepted submit *)

\* C28: a submit accepted with 200 while the quiz has timer_minutes > 0
\* stores an end_time no later than start_time + timer_minutes + 60 s
AcceptedWithinGrace ==
    [][\A p \in Procs :
        (Completes(p, "write") /\ last'.status = 200 /\ settings.timer_minutes > 0) =>
            LET row == sub'[req[p].student]
            IN  /\ row.is_submitted
                /\ row.end_time <= row.start_time + settings.timer_minutes + GRACE]_vars

\* C29: a submit accepted with 200 stores an end_time no later than the
\* close_date of the window of the student's center plus timer_minutes
AcceptedWithinWindow ==
    [][\A p \in Procs :
        (Completes(p, "write") /\ last'.status = 200) =>
            LET row == sub'[req[p].student]
                quiz_center == windows[StudentCenter(req[p].student)]
            IN  /\ row.is_submitted
                /\ HasWindow(quiz_center)
                /\ row.end_time <= quiz_center.close_date + settings.timer_minutes]_vars


----------------------------------------------------------------------------
(* Properties of the availability check *)

\* C30: check_quiz_availability answers available = true for a student
\* only when the student has no finished attempt: no row that is submitted,
\* has a stored end_time or is past start_time + timer_minutes + 60 s at
\* the time of the check
AvailableOnlyUnfinished ==
    [][\A s \in Students :
        (last' # last /\ last'.op = "availability" /\ last'.who = s
            /\ last'.data[1].available) =>
                ~(Exists(sub[s]) /\ (sub[s].is_submitted
                                     \/ is_timed_out(sub[s], settings.timer_minutes, now)))]_vars

====
